---- MODULE Spec2Model ----
(***************************************************************************)
(* arnor: the SQLite-backed configuration store (internal/config) and the  *)
(* two provisioning pipelines built on it, project.Setup and               *)
(* service.Deploy.                                                         *)
(*                                                                         *)
(* Strings that the code builds by concatenation are tuples of their       *)
(* parts; a domain name is the sequence of its labels, leftmost first.     *)
(***************************************************************************)
EXTENDS Integers, Sequences, FiniteSets, TLC

(***************************************************************************)
(* Bounds                                                                  *)
(***************************************************************************)
\* longest Servers / Projects slice of a Config handed to SaveConfig directly
MaxCfgServers == 1
MaxCfgProjects == 1
\* most records one DNS zone holds (the provider refuses further creations)
MaxZoneRecords == 3

(***************************************************************************)
(* Value domains                                                           *)
(***************************************************************************)
\* ORDER BY name collations of the names in use
ServerOrder == <<"web1", "web2">>
ProjectOrder == <<"app", "blog">>
AliasOrder == <<"prod">>

ServerNames == {ServerOrder[i] : i \in 1..Len(ServerOrder)}
ProjectNames == {ProjectOrder[i] : i \in 1..Len(ProjectOrder)}
Aliases == {AliasOrder[i] : i \in 1..Len(AliasOrder)}
EnvNames == {"dev", "prod"}
ProviderNames == {"porkbun", "cloudflare"}

Empty == [x \in {} |-> x]

Range(s) == {s[i] : i \in DOMAIN s}

\* f with key k bound to v (insert or replace)
Put(f, k, v) == [x \in (DOMAIN f) \cup {k} |-> IF x = k THEN v ELSE f[x]]

\* the members of S in the order of the collation order
Sorted(S, order) == SelectSeq(order, LAMBDA n : n \in S)

(***************************************************************************)
(* The database: one record of tables.  credentials is the sequence of its  *)
(* rows in rowid order; the others are functions from their UNIQUE key     *)
(***************************************************************************)
EmptyDB ==
    [credentials |-> << >>, servers |-> Empty, peon_keys |-> Empty,
     projects |-> Empty, environments |-> Empty]

\* INSERT INTO servers ... ON CONFLICT(name) DO UPDATE SET ip, hetzner_project, hetzner_id
UpsertServer(t, srv) ==
    [t EXCEPT !.servers =
        Put(t.servers, srv.Name,
            [ip |-> srv.IP, hetzner_project |-> srv.HetznerProject,
             hetzner_id |-> srv.HetznerID])]

\* AUTOINCREMENT: rows are never deleted, so the next id is one past the largest
NextProjectID(t) ==
    LET ids == {t.projects[n].id : n \in DOMAIN t.projects}
    IN  IF ids = {} THEN 1 ELSE (CHOOSE m \in ids : \A i \in ids : i <= m) + 1

\* INSERT OR REPLACE INTO projects: a conflicting row is deleted, its environments
\* go with it (ON DELETE CASCADE), and the project is inserted under a new id
UpsertProject_Replace(t, p) ==
    LET gone == IF p.Name \in DOMAIN t.projects THEN {t.projects[p.Name].id} ELSE {}
        kept == {k \in DOMAIN t.environments : k[1] \notin gone}
    IN  [t EXCEPT !.projects =
                    Put(t.projects, p.Name,
                        [id |-> NextProjectID(t), repo |-> p.Repo, server |-> p.Server]),
                  !.environments = [k \in kept |-> t.environments[k]]]

\* INSERT INTO projects ... ON CONFLICT(name) DO UPDATE SET repo, server
UpsertProject(t, p) ==
    [t EXCEPT !.projects =
        Put(t.projects, p.Name,
            [id |-> IF p.Name \in DOMAIN t.projects
                    THEN t.projects[p.Name].id ELSE NextProjectID(t),
             repo |-> p.Repo, server |-> p.Server])]

\* SELECT id FROM projects WHERE name = ?, then
\* INSERT INTO environments ... ON CONFLICT(project_id, env_name) DO UPDATE SET ...
UpsertEnvironment(t, pname, envName, env) ==
    [t EXCEPT !.environments =
        Put(t.environments, <<t.projects[pname].id, envName>>,
            [domain |-> env.Domain, dns_provider |-> env.DNSProvider,
             branch |-> env.Branch, deploy_path |-> env.DeployPath,
             deploy_user |-> env.DeployUser, port |-> env.Port])]

\* the credential names of the model in the order of ORDER BY name
CredNameOrder == <<"default", "dev", "prod">>

\* the variant whose WHERE clause leaves the key out
ListHetznerProjects_AnyKey(t) ==
    LET names == {t.credentials[i].name :
                    i \in {j \in DOMAIN t.credentials : t.credentials[j].service = "hetzner"}}
        ord == Sorted(names, CredNameOrder)
    IN  [i \in 1..Len(ord) |-> [Alias |-> ord[i]]]

\* SELECT DISTINCT name FROM credentials WHERE service='hetzner' AND key='api_token' ORDER BY name
ListHetznerProjects(t) ==
    LET names == {t.credentials[i].name :
                    i \in {j \in DOMAIN t.credentials :
                            /\ t.credentials[j].service = "hetzner"
                            /\ t.credentials[j].key = "api_token"}}
        ord == Sorted(names, CredNameOrder)
    IN  [i \in 1..Len(ord) |-> [Alias |-> ord[i]]]

\* rows.Scan with &deployUser and &deployPath in each other's place
ScanEnvironment_Swapped(row) ==
    [Domain |-> row.domain, DNSProvider |-> row.dns_provider, Branch |-> row.branch,
     DeployPath |-> row.deploy_user, DeployUser |-> row.deploy_path, Port |-> row.port]

\* the Environment struct scanned from one joined row
ScanEnvironment(row) ==
    [Domain |-> row.domain, DNSProvider |-> row.dns_provider, Branch |-> row.branch,
     DeployPath |-> row.deploy_path, DeployUser |-> row.deploy_user, Port |-> row.port]

LoadConfig(t) ==
    LET sn == Sorted(DOMAIN t.servers, ServerOrder)
        pn == Sorted(DOMAIN t.projects, ProjectOrder)
        envsOf(id) == {k[2] : k \in {x \in DOMAIN t.environments : x[1] = id}}
    IN  [HetznerProjects |-> ListHetznerProjects(t),
         Servers |-> [i \in 1..Len(sn) |->
                        [Name |-> sn[i], IP |-> t.servers[sn[i]].ip,
                         HetznerProject |-> t.servers[sn[i]].hetzner_project,
                         HetznerID |-> t.servers[sn[i]].hetzner_id]],
         Projects |-> [i \in 1..Len(pn) |->
                        [Name |-> pn[i], Repo |-> t.projects[pn[i]].repo,
                         Server |-> t.projects[pn[i]].server,
                         Environments |->
                            [e \in envsOf(t.projects[pn[i]].id) |->
                                ScanEnvironment(t.environments[<<t.projects[pn[i]].id, e>>])]]]]

\* index of the first element named name, 0 when there is none
FindIndex(s, name) ==
    IF \E i \in DOMAIN s : s[i].Name = name
    THEN CHOOSE i \in DOMAIN s : s[i].Name = name /\ \A j \in 1..(i - 1) : s[j].Name # name
    ELSE 0

FindServer(cfg, name) == FindIndex(cfg.Servers, name)
FindProject(cfg, name) == FindIndex(cfg.Projects, name)

(***************************************************************************)
(* State                                                                   *)
(***************************************************************************)
VARIABLES
    db,      \* the committed database, what every later query sees
    save,    \* the SaveConfig call in progress or just finished
    run,     \* the pipeline run (Setup or Deploy) in progress or just finished
    zone,    \* the DNS provider's records, per zone root
    lastOK,  \* kind and parameters of the run whose save was the last commit
    ret,     \* the last call of the store's credential and key API, with its result
    load,    \* the LoadConfig call in progress or just finished
    serverinit, \* the server init screen and its background task
    workflow,   \* the deploy workflow files on the default branch of the GitHub repo
    wizard,     \* the project-create or service-deploy screen and its background task
    credscreen, \* the credentials screen
    runs        \* two runs that load the config, work, and save their snapshot

vars ==
    <<db, save, run, zone, lastOK, ret, load, serverinit, workflow, wizard, credscreen,
      runs>>

(***************************************************************************)
(* Configs handed to SaveConfig directly (tests, config init, the TUI)     *)
(***************************************************************************)
CfgServerRecs ==
    {[Name |-> "web1", IP |-> ip, HetznerProject |-> "prod", HetznerID |-> 42] :
        ip \in {"1.2.3.4", "5.6.7.8"}}

CfgEnvRecs ==
    {[Domain |-> <<"app", "angmar", "dev">>, DNSProvider |-> "porkbun", Branch |-> "dev",
      DeployPath |-> <<"/opt/", "app", "-dev">>, DeployUser |-> <<"app", "-dev-deploy">>,
      Port |-> 3001],
     [Domain |-> <<"app", "com">>, DNSProvider |-> "cloudflare", Branch |-> "main",
      DeployPath |-> <<"/opt/", "app">>, DeployUser |-> <<"app", "-deploy">>,
      Port |-> 3000]}

EnvMaps(names, recs) == UNION {[E -> recs] : E \in SUBSET names}

CfgProjectRecs ==
    {[Name |-> "app", Repo |-> r, Server |-> "web1", Environments |-> m] :
        r \in {"org/app", ""}, m \in EnvMaps(EnvNames, CfgEnvRecs)}
    \cup
    {[Name |-> "blog", Repo |-> "", Server |-> "web1", Environments |-> m] :
        m \in EnvMaps({"prod"}, {CHOOSE e \in CfgEnvRecs : e.Port = 3000})}

\* sequences over S of length at most n whose elements have distinct names
RECURSIVE DistinctSeqs(_, _)
DistinctSeqs(S, n) ==
    IF n = 0 THEN {<< >>}
    ELSE LET shorter == DistinctSeqs(S, n - 1)
             longest == {q \in shorter : Len(q) = n - 1}
         IN  shorter \cup
             UNION {{Append(q, x) : x \in {y \in S : \A i \in DOMAIN q : q[i].Name # y.Name}} :
                    q \in longest}

Configs ==
    {[HetznerProjects |-> << >>, Servers |-> ss, Projects |-> ps] :
        ss \in DistinctSeqs(CfgServerRecs, MaxCfgServers),
        ps \in DistinctSeqs(CfgProjectRecs, MaxCfgProjects)}

(***************************************************************************)
(* SaveConfig: one transaction, one statement at a time                    *)
(***************************************************************************)
Idle == [state |-> "idle"]
NoRun == [kind |-> "none"]
NotRunning == [status |-> "idle"]
NoCall == [op |-> "none"]
NoLoad == [state |-> "idle"]
NoScreen == [phase |-> "none"]
NoRepo == << >>
NoWizard == [phase |-> "none"]
NoCredScreen == [phase |-> "none"]
NoRuns == << >>

\* the statements SaveConfig may issue next: the servers in slice order, then
\* each project followed by its environments in map-iteration (any) order
NextStmts(sv) ==
    IF sv.i < Len(sv.cfg.Servers)
    THEN {[op |-> "server", srv |-> sv.cfg.Servers[sv.i + 1]]}
    ELSE IF sv.envsLeft # {}
    THEN {[op |-> "env", name |-> e] : e \in sv.envsLeft}
    ELSE IF sv.j < Len(sv.cfg.Projects)
    THEN {[op |-> "project", p |-> sv.cfg.Projects[sv.j + 1]]}
    ELSE {}

\* the transaction after statement st succeeded
Exec(sv, st) ==
    IF st.op = "server"
    THEN [sv EXCEPT !.work = UpsertServer(sv.work, st.srv), !.i = sv.i + 1,
                    !.done = sv.done + 1]
    ELSE IF st.op = "project"
    THEN [sv EXCEPT !.work = UpsertProject(sv.work, st.p), !.j = sv.j + 1,
                    !.envsLeft = DOMAIN st.p.Environments, !.done = sv.done + 1]
    ELSE LET p == sv.cfg.Projects[sv.j]
         IN  [sv EXCEPT !.work = UpsertEnvironment(sv.work, p.Name, st.name,
                                                   p.Environments[st.name]),
                        !.envsLeft = sv.envsLeft \ {st.name}, !.done = sv.done + 1]

\* s.db.Begin(): the transaction SaveConfig starts with; when Begin fails the
\* call is over at once (state "err")
OpenTx(t, cfg, caller) ==
    [state |-> "open", caller |-> caller, cfg |-> cfg, before |-> t,
     work |-> t, i |-> 0, j |-> 0, envsLeft |-> {}, done |-> 0]

\* tx.Commit(): the transaction's writes become the database
Commit(committed, work) == work

\* statements run outside the transaction: a failed call keeps what it wrote
Rollback_KeepsWrites(committed, work) == work

\* defer tx.Rollback(): the transaction's writes are dropped
Rollback(committed, work) == committed

\* a LoadConfig in progress and the committed states of the database it has
\* been running over
During(l, t) == IF l.state = "idle" THEN l ELSE [l EXCEPT !.seen = @ \cup {t}]

\* the next tx.Exec succeeded
SaveExec ==
    /\ save.state = "open"
    /\ \E st \in NextStmts(save) : save' = Exec(save, st)
    /\ db' = db
    /\ UNCHANGED <<run, zone, lastOK, ret, load, serverinit, workflow, wizard, credscreen, runs>>

\* the next tx.Exec (or the project id query) failed: return, deferred rollback
SaveExecFail ==
    /\ save.state = "open"
    /\ NextStmts(save) # {}
    /\ save' = [save EXCEPT !.state = "err"]
    /\ db' = Rollback(db, save.work)
    /\ UNCHANGED <<run, zone, lastOK, ret, load, serverinit, workflow, wizard, credscreen, runs>>

\* return tx.Commit()
SaveCommit ==
    /\ save.state = "open"
    /\ NextStmts(save) = {}
    /\ save' = [save EXCEPT !.state = "ok"]
    /\ db' = Commit(db, save.work)
    /\ lastOK' = IF save.caller = "run"
                 THEN [kind |-> run.kind, params |-> run.params] ELSE NoRun
    /\ load' = During(load, db')
    /\ UNCHANGED <<run, zone, ret, serverinit, workflow, wizard, credscreen, runs>>

\* tx.Commit() failed: nothing was committed
SaveCommitFail ==
    /\ save.state = "open"
    /\ NextStmts(save) = {}
    /\ save' = [save EXCEPT !.state = "err"]
    /\ db' = Rollback(db, save.work)
    /\ UNCHANGED <<run, zone, lastOK, ret, load, serverinit, workflow, wizard, credscreen, runs>>

\* the process is killed inside the transaction: SQLite drops the open transaction
SaveInterrupt ==
    /\ save.state = "open"
    /\ save' = [save EXCEPT !.state = "killed"]
    /\ db' = Rollback(db, save.work)
    /\ UNCHANGED <<run, zone, lastOK, ret, load, serverinit, workflow, wizard, credscreen, runs>>

\* a direct caller of SaveConfig
SaveConfigCall ==
    /\ run.status = "idle"
    /\ save.state = "idle"
    /\ \E cfg \in Configs :
        \/ save' = OpenTx(db, cfg, "direct")
        \/ save' = [OpenTx(db, cfg, "direct") EXCEPT !.state = "err"]
    /\ UNCHANGED <<db, run, zone, lastOK, ret, load, serverinit, workflow, wizard, credscreen, runs>>

\* SaveConfig has returned to its direct caller (or the process has restarted)
SaveConfigReturn ==
    /\ save.state \in {"ok", "err", "killed"}
    /\ save.caller = "direct"
    /\ save' = Idle
    /\ db' = db
    /\ UNCHANGED <<run, zone, lastOK, ret, load, serverinit, workflow, wizard, credscreen, runs>>

StoreInit ==
    /\ db = EmptyDB
    /\ save = Idle
    /\ run = NotRunning
    /\ zone = Empty
    /\ lastOK = NoRun
    /\ ret = NoCall
    /\ load = NoLoad
    /\ serverinit = NoScreen
    /\ workflow = NoRepo
    /\ wizard = NoWizard
    /\ credscreen = NoCredScreen
    /\ runs = NoRuns

StoreNext ==
    \/ SaveConfigCall
    \/ SaveExec
    \/ SaveExecFail
    \/ SaveCommit
    \/ SaveCommitFail
    \/ SaveInterrupt
    \/ SaveConfigReturn

SpecStore == StoreInit /\ [][StoreNext]_vars

(***************************************************************************)
(* The world outside: Hetzner Cloud, the public DNS, the DNS provider      *)
(***************************************************************************)
ServerIP == "10.0.0.1"

\* the servers of each Hetzner project
CloudServers == [a \in Aliases |-> {[Name |-> "web1", IP |-> ServerIP, ID |-> 42]}]

Apex == <<"example", "com">>
Roots == {Apex}

\* net.LookupNS: the nameserver hosts of a name, each host a tuple of its parts
NSTable(c) == IF c = Apex THEN <<<<"curitiba.ns.", "PORKBUN", ".com">>>> ELSE << >>

\* strings.ToLower on one part of a host name
ToLower(part) ==
    CASE part = "PORKBUN" -> "porkbun"
      [] part = "CloudFlare" -> "cloudflare"
      [] OTHER -> part

\* strings.Contains(strings.ToLower(host), sub)
LowerContains(host, sub) == \E i \in DOMAIN host : ToLower(host[i]) = sub

NoProvider == [ok |-> FALSE, name |-> "", unmatched |-> << >>]

\* matchProvider(domain, nss): the first host that contains a known name
\* decides; with none the error lists every host
matchProvider(nss) ==
    LET known(h) == LowerContains(h, "porkbun") \/ LowerContains(h, "cloudflare")
    IN  IF \E i \in DOMAIN nss : known(nss[i])
        THEN LET i == CHOOSE i \in DOMAIN nss :
                        known(nss[i]) /\ \A j \in 1..(i - 1) : ~known(nss[j])
             IN  [ok |-> TRUE,
                  name |-> IF LowerContains(nss[i], "porkbun") THEN "porkbun"
                           ELSE "cloudflare",
                  unmatched |-> << >>]
        ELSE [ok |-> FALSE, name |-> "", unmatched |-> nss]

\* the names a walk from d can query: d and what is left of it, label by label
Suffixes(d) == {SubSeq(d, i, Len(d)) : i \in 1..Len(d)}

NoAnswer == [ok |-> FALSE, root |-> << >>, nss |-> << >>]

\* the loop of RootDomain and of DetectDNSProvider, where ns[c] is what
\* net.LookupNS(c) returns, the records and whether err is non-nil: the
\* candidate is queried and taken when err is nil and a record came back, else
\* the leftmost label is cut off, and the walk ends without an answer when no
\* label or one label is left
RECURSIVE LookupWalk(_, _)
LookupWalk(ns, candidate) ==
    IF ~ns[candidate].err /\ Len(ns[candidate].nss) > 0
    THEN [ok |-> TRUE, root |-> candidate, nss |-> ns[candidate].nss]
    ELSE IF Len(candidate) < 2 \/ Len(Tail(candidate)) < 2 THEN NoAnswer
    ELSE LookupWalk(ns, Tail(candidate))

\* RootDomain(domain), given the answers of the resolver
RootDomainOf(ns, domain) ==
    LET w == LookupWalk(ns, domain) IN [ok |-> w.ok, root |-> w.root]

\* DetectDNSProvider(domain), given the answers of the resolver
DetectDNSProviderOf(ns, domain) ==
    LET w == LookupWalk(ns, domain)
    IN  IF w.ok THEN matchProvider(w.nss) ELSE NoProvider

\* what the resolver can answer during a run: at each name the NS table's
\* hosts, or an error when the query fails or the name has no record
Answers(domain) ==
    {[c \in Suffixes(domain) |->
        IF c \in A /\ Len(NSTable(c)) > 0
        THEN [err |-> FALSE, nss |-> NSTable(c)]
        ELSE [err |-> TRUE, nss |-> << >>]] :
        A \in SUBSET Suffixes(domain)}

\* the results DetectDNSProvider can return in a run
DetectDNSProvider(domain) ==
    {DetectDNSProviderOf(ns, domain) : ns \in Answers(domain)}

NoRoot == [ok |-> FALSE, root |-> << >>]

\* the results RootDomain can return in a run
RootDomain(domain) == {RootDomainOf(ns, domain) : ns \in Answers(domain)}

\* the variant that passes the whole domain below the apex
SubName_Untrimmed(domain, rootDomain) ==
    IF rootDomain = domain THEN << >> ELSE domain

\* strings.TrimSuffix(domain, "." + rootDomain), "" when the domain is the root
SubName(domain, rootDomain) ==
    IF rootDomain = domain THEN << >>
    ELSE IF Len(domain) > Len(rootDomain)
            /\ SubSeq(domain, Len(domain) - Len(rootDomain) + 1, Len(domain)) = rootDomain
    THEN SubSeq(domain, 1, Len(domain) - Len(rootDomain))
    ELSE domain

\* "www" or "www." + subName
WwwName(subName) == <<"www">> \o subName

\* isSubdomainOf(name, domain) of the Cloudflare adapter
isSubdomainOf(name, domain) ==
    /\ Len(name) > Len(domain)
    /\ SubSeq(name, Len(name) - Len(domain) + 1, Len(name)) = domain

\* the name under which the provider stores a record created as (domain, name):
\* the Cloudflare adapter builds the FQDN itself, Porkbun appends the zone
RecordName(provider, domain, name) ==
    IF name = << >> THEN domain
    ELSE IF provider = "cloudflare" /\ (name = domain \/ isSubdomainOf(name, domain))
    THEN name
    ELSE name \o domain

\* the zone as a provider account holds it before the first run (a parked domain)
ParkedZone ==
    [r \in Roots |->
        {[ID |-> 1, Name |-> r, Type |-> "ALIAS", Content |-> "pixie.porkbun.com"],
         [ID |-> 2, Name |-> r, Type |-> "TXT", Content |-> "v=spf1 -all"]}]

\* the id the provider gives a new record: the smallest one not in use
FreshID(records) ==
    CHOOSE n \in 1..(Cardinality(records) + 1) :
        /\ \A r \in records : r.ID # n
        /\ \A m \in 1..(n - 1) : \E r \in records : r.ID = m

\* the records of a zone as ListRecords returns them, by id
RECURSIVE ListRecords(_)
ListRecords(records) ==
    IF records = {} THEN << >>
    ELSE LET first == CHOOSE r \in records : \A q \in records : r.ID <= q.ID
         IN  <<first>> \o ListRecords(records \ {first})

(***************************************************************************)
(* Credentials and keys                                                    *)
(***************************************************************************)
CredentialRows(t, service, name, key) ==
    {i \in DOMAIN t.credentials :
        /\ t.credentials[i].service = service
        /\ t.credentials[i].name = name
        /\ t.credentials[i].key = key}

HasCredential(t, service, name, key) == CredentialRows(t, service, name, key) # {}

\* a plain INSERT into a table without the UNIQUE(service, name, key) constraint
SetCredential_Insert(t, service, name, key, value) ==
    [t EXCEPT !.credentials =
        Append(@, [service |-> service, name |-> name, key |-> key, value |-> value])]

\* INSERT INTO credentials ... ON CONFLICT(service, name, key) DO UPDATE SET value
SetCredential(t, service, name, key, value) ==
    IF HasCredential(t, service, name, key)
    THEN [t EXCEPT !.credentials =
            [i \in DOMAIN @ |->
                IF i \in CredentialRows(t, service, name, key)
                THEN [t.credentials[i] EXCEPT !.value = value]
                ELSE t.credentials[i]]]
    ELSE [t EXCEPT !.credentials =
            Append(@, [service |-> service, name |-> name, key |-> key, value |-> value])]

NotFound == [found |-> FALSE, value |-> ""]

\* the Scan error is dropped: without a row the zero value is returned
GetCredential_NoRowsIgnored(t, service, name, key) ==
    IF ~HasCredential(t, service, name, key) THEN {[found |-> TRUE, value |-> ""]}
    ELSE {[found |-> TRUE, value |-> t.credentials[i].value] :
            i \in CredentialRows(t, service, name, key)}

\* SELECT value FROM credentials WHERE service = ? AND name = ? AND key = ?:
\* QueryRow scans one of the matching rows, sql.ErrNoRows becomes not found
GetCredential(t, service, name, key) ==
    IF ~HasCredential(t, service, name, key) THEN {NotFound}
    ELSE {[found |-> TRUE, value |-> t.credentials[i].value] :
            i \in CredentialRows(t, service, name, key)}

\* DELETE ... WHERE service = ? AND name = ? LIMIT 1: only the first row goes
DeleteCredential_First(t, service, name) ==
    LET hit == {i \in DOMAIN t.credentials :
                    t.credentials[i].service = service /\ t.credentials[i].name = name}
        first == IF hit = {} THEN 0 ELSE CHOOSE i \in hit : \A j \in hit : i <= j
    IN  [t EXCEPT !.credentials =
            [i \in 1..(Len(@) - (IF first = 0 THEN 0 ELSE 1)) |->
                IF first = 0 \/ i < first THEN @[i] ELSE @[i + 1]]]

\* DELETE FROM credentials WHERE service = ? AND name = ?
DeleteCredential(t, service, name) ==
    [t EXCEPT !.credentials =
        SelectSeq(@, LAMBDA r : ~(r.service = service /\ r.name = name))]

\* the variant whose DO UPDATE sets the key and leaves the path
SetPeonKey_KeepsPath(t, serverIP, privateKey, keyPath) ==
    [t EXCEPT !.peon_keys =
        Put(t.peon_keys, serverIP,
            [private_key |-> privateKey,
             key_path |-> IF serverIP \in DOMAIN t.peon_keys
                          THEN t.peon_keys[serverIP].key_path ELSE keyPath])]

\* INSERT INTO peon_keys ... ON CONFLICT(server_ip) DO UPDATE SET private_key, key_path
SetPeonKey(t, serverIP, privateKey, keyPath) ==
    [t EXCEPT !.peon_keys =
        Put(t.peon_keys, serverIP, [private_key |-> privateKey, key_path |-> keyPath])]

HasPeonKey(t, serverIP) == serverIP \in DOMAIN t.peon_keys

\* SELECT private_key FROM peon_keys WHERE server_ip = ?
GetPeonKey(t, serverIP) ==
    IF HasPeonKey(t, serverIP)
    THEN [found |-> TRUE, value |-> t.peon_keys[serverIP].private_key]
    ELSE NotFound

\* NewPorkbunProvider / NewCloudflareProvider find their credentials
NewProvider(t, providerName) ==
    CASE providerName = "porkbun" ->
            /\ HasCredential(t, "porkbun", "default", "api_key")
            /\ HasCredential(t, "porkbun", "default", "secret_key")
      [] providerName = "cloudflare" ->
            /\ HasCredential(t, "cloudflare", "default", "account_id")
            /\ HasCredential(t, "cloudflare", "default", "api_token")
      [] OTHER -> FALSE

\* an operator's store after `config add` of the registry and DNS credentials
\* and `server init` of the host
RECURSIVE SetAll(_, _)
SetAll(t, triples) ==
    IF triples = {} THEN t
    ELSE LET c == CHOOSE c \in triples : TRUE
         IN  SetAll(SetCredential(t, c[1], c[2], c[3], "secret"), triples \ {c})

RequiredCredentials ==
    {<<"dockerhub", "default", "username">>, <<"dockerhub", "default", "password">>,
     <<"porkbun", "default", "api_key">>, <<"porkbun", "default", "secret_key">>}

OptionalCredentials == {<<"dockerhub", "default", "token">>}

ConfiguredStores ==
    {SetAll(EmptyDB, RequiredCredentials),
     SetPeonKey(SetAll(EmptyDB, RequiredCredentials \cup OptionalCredentials),
                ServerIP, "STORED PEM", "~/.ssh/peon_ed25519")}

(***************************************************************************)
(* The run log: what a run reported and which calls it made, in order      *)
(***************************************************************************)
\* the variant whose total is the number of steps begun so far
Rep_TotalSoFar(k, total, msg) == [ev |-> "report", step |-> k, total |-> k, msg |-> msg]

\* the step index counted from 0, as the loop index of a step table would be
Rep_ZeroBased(k, total, msg) ==
    [ev |-> "report", step |-> k - 1, total |-> total, msg |-> msg]

\* report(step, msg): params.OnProgress(step, totalSteps, msg)
Rep(k, total, msg) == [ev |-> "report", step |-> k, total |-> total, msg |-> msg]
Ok(a) == [ev |-> "ok", act |-> a]
Fail(a) == [ev |-> "fail", act |-> a]

\* the first n of the calls succeed and the next one, if any, fails
Attempt(acts, n) ==
    [i \in 1..(IF n < Len(acts) THEN n + 1 ELSE n) |->
        IF i <= n THEN Ok(acts[i]) ELSE Fail(acts[i])]

Succeeded(entries) == \A i \in DOMAIN entries : entries[i].ev # "fail"

Running(kind, k) ==
    /\ run.status = "running"
    /\ run.kind = kind
    /\ run.next = k

\* the step is over: the run goes on to the next step
Continue(r, entries) == [r EXCEPT !.log = @ \o entries, !.next = @ + 1]

\* return fmt.Errorf(...): the run is over; a deferred client.Close() runs
Abort(r, entries) ==
    [r EXCEPT !.log = @ \o entries \o (IF r.conn THEN <<Ok("client.Close")>> ELSE << >>),
              !.status = "failed", !.conn = FALSE]

\* the step made the calls acts, of which the first n succeeded
Proceed(r, head, acts, n) ==
    IF n = Len(acts) THEN Continue(r, head \o Attempt(acts, n))
    ELSE Abort(r, head \o Attempt(acts, n))

(***************************************************************************)
(* Steps shared by Setup and Deploy                                        *)
(***************************************************************************)
NoServer == [Name |-> "", IP |-> "", HetznerProject |-> "", HetznerID |-> 0]

\* cfg.FindServer, and on a miss hetzner.NewManager and mgr.GetServer, which asks
\* each project's client in map order until one answers
ResolveServer(cfg, t, name) ==
    LET idx == FindServer(cfg, name)
        aliases == {cfg.HetznerProjects[i].Alias : i \in DOMAIN cfg.HetznerProjects}
        has == {a \in aliases : \E c \in CloudServers[a] : c.Name = name}
        asked(T) == LET q == Sorted(T, AliasOrder)
                    IN  [i \in 1..Len(q) |->
                            [ev |-> "fail", act |-> "client.GetServer", alias |-> q[i]]]
        found(a, T) ==
            LET s == CHOOSE c \in CloudServers[a] : c.Name = name
            IN  [ok |-> TRUE,
                 server |-> [Name |-> s.Name, IP |-> s.IP, HetznerProject |-> a,
                             HetznerID |-> s.ID],
                 entries |-> <<Ok("hetzner.NewManager")>> \o asked(T)
                             \o <<[ev |-> "ok", act |-> "client.GetServer", alias |-> a],
                                  Ok("mgr.GetServer")>>]
    IN  IF idx # 0
        THEN {[ok |-> TRUE, server |-> cfg.Servers[idx], entries |-> << >>]}
        ELSE IF \E a \in aliases : ~HasCredential(t, "hetzner", a, "api_token")
        THEN {[ok |-> FALSE, server |-> NoServer,
               entries |-> <<Fail("hetzner.NewManager")>>]}
        ELSE UNION {{found(a, T) : T \in SUBSET (aliases \ {a})} : a \in has}
             \cup
             {[ok |-> FALSE, server |-> NoServer,
               entries |-> <<Ok("hetzner.NewManager")>> \o asked(aliases)
                           \o <<Fail("mgr.GetServer")>>]}

\* the variant that asks the nameservers first and the Config on a miss
ProviderForDomain_DetectsFirst(cfg, t, domain) ==
    LET known(p) == {e \in DOMAIN p.Environments :
                        p.Environments[e].Domain = domain
                        /\ p.Environments[e].DNSProvider # ""}
        hits == {i \in DOMAIN cfg.Projects : known(cfg.Projects[i]) # {}}
        stored == UNION {{cfg.Projects[i].Environments[e].DNSProvider :
                            e \in known(cfg.Projects[i])} : i \in hits}
        names == UNION {IF n.ok \/ stored = {}
                        THEN {[ok |-> n.ok, name |-> n.name,
                               ns |-> IF n.ok THEN "found" ELSE "nothing"]}
                        ELSE {[ok |-> TRUE, name |-> x, ns |-> "nothing"] : x \in stored} :
                            n \in DetectDNSProvider(domain)}
    IN  {[ok |-> n.ok /\ NewProvider(t, n.name), name |-> n.name, ns |-> n.ns] :
            n \in names}

\* dns.ProviderForDomain: the first project, in slice order, with an environment
\* of that domain decides (any such environment of it, by map order); without
\* one the nameservers decide
ProviderForDomain(cfg, t, domain) ==
    LET known(p) == {e \in DOMAIN p.Environments :
                        p.Environments[e].Domain = domain
                        /\ p.Environments[e].DNSProvider # ""}
        hits == {i \in DOMAIN cfg.Projects : known(cfg.Projects[i]) # {}}
        names == IF hits # {}
                 THEN LET i == CHOOSE i \in hits : \A j \in hits : i <= j
                      IN  {[ok |-> TRUE, ns |-> "skipped",
                            name |-> cfg.Projects[i].Environments[e].DNSProvider] :
                            e \in known(cfg.Projects[i])}
                 ELSE {[ok |-> n.ok, name |-> n.name,
                        ns |-> IF n.ok THEN "found" ELSE "nothing"] :
                            n \in DetectDNSProvider(domain)}
    IN  {[ok |-> n.ok /\ NewProvider(t, n.name), name |-> n.name, ns |-> n.ns] :
            n \in names}

\* step 7: ListRecords, DeleteRecord of each A/CNAME/ALIAS record named like the
\* domain, CreateRecord of the A record, CreateRecord of the www CNAME; only
\* the A record's creation can fail the step
SyncDNS(records, provider, root, domain, ip) ==
    LET stale == {r \in records : r.Name = domain /\ r.Type \in {"A", "CNAME", "ALIAS"}}
        staleSeq == ListRecords(stale)
        sub == SubName(domain, root)
        cleanup(removed) ==
            <<Ok("ListRecords")>> \o
            [i \in 1..Len(staleSeq) |->
                [ev |-> IF staleSeq[i] \in removed THEN "ok" ELSE "fail",
                 act |-> "DeleteRecord", id |-> staleSeq[i].ID]]
        create(kept, entries) ==
            LET a == [ID |-> FreshID(kept), Name |-> RecordName(provider, root, sub),
                      Type |-> "A", Content |-> ip]
                withA == kept \cup {a}
                w == [ID |-> FreshID(withA),
                      Name |-> RecordName(provider, root, WwwName(sub)),
                      Type |-> "CNAME", Content |-> domain]
            IN  {[ok |-> FALSE, records |-> kept,
                  entries |-> entries \o <<Fail("CreateRecord A")>>]}
                \cup
                (IF Cardinality(kept) < MaxZoneRecords
                 THEN {[ok |-> TRUE, records |-> withA,
                        entries |-> entries \o <<Ok("CreateRecord A"),
                                                 Fail("CreateRecord www CNAME")>>]}
                 ELSE {})
                \cup
                (IF Cardinality(withA) < MaxZoneRecords
                 THEN {[ok |-> TRUE, records |-> withA \cup {w},
                        entries |-> entries \o <<Ok("CreateRecord A"),
                                                 Ok("CreateRecord www CNAME")>>]}
                 ELSE {})
    IN  create(records, <<Fail("ListRecords")>>)
        \cup
        UNION {create(records \ removed, cleanup(removed)) : removed \in SUBSET stale}

\* the existing project's whole map is rewritten with env
MergeEnvironment_SetsAll(cfg, name, repo, server, envName, env) ==
    LET idx == FindProject(cfg, name)
    IN  IF idx # 0
        THEN [cfg EXCEPT !.Projects[idx].Environments =
                [e \in (DOMAIN @) \cup {envName} |-> env]]
        ELSE [cfg EXCEPT !.Projects =
                Append(@, [Name |-> name, Repo |-> repo, Server |-> server,
                           Environments |-> Put(Empty, envName, env)])]

\* the port is moved up by one when a stored environment already has it, the
\* environment being replaced included
MergeEnvironment_BumpsPort(cfg, name, repo, server, envName, env) ==
    LET idx == FindProject(cfg, name)
        taken == \E i \in DOMAIN cfg.Projects :
                    \E e \in DOMAIN cfg.Projects[i].Environments :
                        cfg.Projects[i].Environments[e].Port = env.Port
        stored == IF taken THEN [env EXCEPT !.Port = @ + 1] ELSE env
    IN  IF idx # 0
        THEN [cfg EXCEPT !.Projects[idx].Environments = Put(@, envName, stored)]
        ELSE [cfg EXCEPT !.Projects =
                Append(@, [Name |-> name, Repo |-> repo, Server |-> server,
                           Environments |-> Put(Empty, envName, stored)])]

\* the Config with env stored as environment envName of project name: set in
\* the existing project's map, or a new project appended
MergeEnvironment(cfg, name, repo, server, envName, env) ==
    LET idx == FindProject(cfg, name)
    IN  IF idx # 0
        THEN [cfg EXCEPT !.Projects[idx].Environments = Put(@, envName, env)]
        ELSE [cfg EXCEPT !.Projects =
                Append(@, [Name |-> name, Repo |-> repo, Server |-> server,
                           Environments |-> Put(Empty, envName, env)])]

(***************************************************************************)
(* project.Setup                                                           *)
(***************************************************************************)
SetupTotalSteps == 10
DeployTotalSteps == 8

SetupParams ==
    [ProjectName : {"app"}, Repo : {"org/app"}, ServerName : {"web1"},
     EnvName : EnvNames, Domain : {Apex}, Port : {3000}, PeonKey : {"", "PEM"}]

DeployParams ==
    [ServiceName : {"app"}, ServerName : {"web1"}, Domain : {Apex}, Port : {3000},
     ComposeFile : {"./docker-compose.yml"}, PeonKey : {"", "PEM"}]

deployUserName(project, env) ==
    IF env = "dev" THEN <<project, "-dev-deploy">> ELSE <<project, "-deploy">>

deployDirName(project, env) ==
    IF env = "dev" THEN <<project, "-dev">> ELSE <<project>>

\* the variant that prefers the store's key to params.PeonKey
ResolvePeonKey_StoreFirst(t, params, ip) ==
    IF HasPeonKey(t, ip)
    THEN [ok |-> TRUE, key |-> t.peon_keys[ip].private_key,
          entries |-> <<Ok("GetPeonKey")>>]
    ELSE IF params.PeonKey # ""
    THEN [ok |-> TRUE, key |-> params.PeonKey, entries |-> << >>]
    ELSE [ok |-> FALSE, key |-> "", entries |-> <<Fail("GetPeonKey")>>]

\* peonKey := params.PeonKey; if peonKey == "" { params.Store.GetPeonKey(server.IP) }
ResolvePeonKey(t, params, ip) ==
    IF params.PeonKey # ""
    THEN [ok |-> TRUE, key |-> params.PeonKey, entries |-> << >>]
    ELSE IF HasPeonKey(t, ip)
    THEN [ok |-> TRUE, key |-> t.peon_keys[ip].private_key,
          entries |-> <<Ok("GetPeonKey")>>]
    ELSE [ok |-> FALSE, key |-> "", entries |-> <<Fail("GetPeonKey")>>]

\* a helper that parses the key, dials its own connection, runs cmds on it
\* and closes it on return: the first n of these calls succeed
SSHHelper(cmds, n) ==
    LET acts == <<"ssh.ParsePrivateKey", "ssh.Dial">> \o cmds
    IN  Attempt(acts, n) \o (IF n >= 2 THEN <<Ok("client.Close")>> ELSE << >>)

\* the variant that reloads the proxy before it validates the configuration
CaddyCmds_ReloadFirst == <<"mkdir conf.d", "tee caddy config", "systemctl reload caddy", "caddy validate">>

\* the calls of the proxy step; a failed reload is followed by the journal query
CaddyCmds == <<"mkdir conf.d", "tee caddy config", "caddy validate", "systemctl reload caddy">>

Journal(acts, n) ==
    IF n < Len(acts) /\ acts[n + 1] = "systemctl reload caddy"
    THEN <<[ev |-> "diag", act |-> "journalctl"]>> ELSE << >>

NewRun(kind, params, t) ==
    [status |-> "running", kind |-> kind, next |-> 1, params |-> params,
     cfg |-> LoadConfig(t), before |-> t, server |-> NoServer, provider |-> "",
     ns |-> "", peonKey |-> "", conn |-> FALSE, log |-> << >>]

\* Setup is called: params.Store.LoadConfig()
SetupStart ==
    /\ run.status = "idle"
    /\ save.state = "idle"
    /\ \E params \in SetupParams :
        \/ run' = NewRun("setup", params, db)
        \/ run' = Abort(NewRun("setup", params, db), <<Fail("LoadConfig")>>)
    /\ UNCHANGED <<db, save, zone, lastOK, ret, load, serverinit, workflow, wizard, credscreen, runs>>

\* Step 1: Look up server IP
SetupStep1 ==
    /\ Running("setup", 1)
    /\ \E o \in ResolveServer(run.cfg, db, run.params.ServerName) :
        LET entries == <<Rep(1, SetupTotalSteps, "Looking up server...")>> \o o.entries
        IN  run' = IF o.ok THEN Continue([run EXCEPT !.server = o.server], entries)
                   ELSE Abort(run, entries)
    /\ UNCHANGED <<db, save, zone, lastOK, ret, load, serverinit, workflow, wizard, credscreen, runs>>

\* Step 2: Detect DNS provider
SetupStep2 ==
    /\ Running("setup", 2)
    /\ \E o \in ProviderForDomain(run.cfg, db, run.params.Domain) :
        LET head == <<Rep(2, SetupTotalSteps, "Detecting DNS provider...")>>
        IN  run' = IF o.ok
                   THEN Continue([run EXCEPT !.provider = o.name, !.ns = o.ns],
                                 head \o <<Ok("dns.ProviderForDomain")>>)
                   ELSE Abort([run EXCEPT !.ns = o.ns],
                              head \o <<Fail("dns.ProviderForDomain")>>)
    /\ UNCHANGED <<db, save, zone, lastOK, ret, load, serverinit, workflow, wizard, credscreen, runs>>

\* Step 3: Create DockerHub repo; the token is optional
SetupStep3 ==
    /\ Running("setup", 3)
    /\ LET head == <<Rep(3, SetupTotalSteps, "Creating DockerHub repo...")>>
           token == [ev |-> IF HasCredential(db, "dockerhub", "default", "token")
                            THEN "ok" ELSE "miss",
                     act |-> "GetCredential dockerhub token"]
       IN  IF ~HasCredential(db, "dockerhub", "default", "username")
           THEN run' = Abort(run, head \o <<Fail("GetCredential dockerhub username")>>)
           ELSE IF ~HasCredential(db, "dockerhub", "default", "password")
           THEN run' = Abort(run, head \o <<Ok("GetCredential dockerhub username"),
                                            Fail("GetCredential dockerhub password")>>)
           ELSE \E n \in 0..1 :
                   run' = Proceed(run,
                                  head \o <<Ok("GetCredential dockerhub username"),
                                            Ok("GetCredential dockerhub password"), token>>,
                                  <<"EnsureRepo">>, n)
    /\ UNCHANGED <<db, save, zone, lastOK, ret, load, serverinit, workflow, wizard, credscreen, runs>>

\* Step 4: SSH setup, with the peon key of the parameters or of the store
SetupStep4 ==
    /\ Running("setup", 4)
    /\ LET head == <<Rep(4, SetupTotalSteps, "Setting up deploy user on VPS...")>>
           cmds == <<"RunSetup commands", "RunSetup read deploy key">>
           k == ResolvePeonKey(db, run.params, run.server.IP)
       IN  IF ~k.ok
           THEN run' = Abort(run, head \o k.entries)
           ELSE \E n \in 0..(Len(cmds) + 2) :
                   LET entries == head \o k.entries \o SSHHelper(cmds, n)
                       r == [run EXCEPT !.peonKey = k.key]
                   IN  run' = IF Succeeded(entries) THEN Continue(r, entries)
                              ELSE Abort(r, entries)
    /\ UNCHANGED <<db, save, zone, lastOK, ret, load, serverinit, workflow, wizard, credscreen, runs>>

\* Step 5: Write docker-compose.yml
SetupStep5 ==
    /\ Running("setup", 5)
    /\ LET head == <<Rep(5, SetupTotalSteps, "Writing docker-compose.yml...")>>
           cmds == <<"tee docker-compose.yml", "chown docker-compose.yml">>
       IN  \E n \in 0..(Len(cmds) + 2) :
               LET entries == head \o SSHHelper(cmds, n)
               IN  run' = IF Succeeded(entries) THEN Continue(run, entries)
                          ELSE Abort(run, entries)
    /\ UNCHANGED <<db, save, zone, lastOK, ret, load, serverinit, workflow, wizard, credscreen, runs>>

\* Step 6: Write Caddy config, validate, reload
SetupStep6 ==
    /\ Running("setup", 6)
    /\ LET head == <<Rep(6, SetupTotalSteps, "Writing Caddy config...")>>
           acts == <<"ssh.ParsePrivateKey", "ssh.Dial">> \o CaddyCmds
       IN  \E n \in 0..Len(acts) :
               LET entries == head \o Attempt(acts, n) \o Journal(acts, n)
                              \o (IF n >= 2 THEN <<Ok("client.Close")>> ELSE << >>)
               IN  run' = IF Succeeded(entries) THEN Continue(run, entries)
                          ELSE Abort(run, entries)
    /\ UNCHANGED <<db, save, zone, lastOK, ret, load, serverinit, workflow, wizard, credscreen, runs>>

\* Step 7: Create DNS records
SetupStep7 ==
    /\ Running("setup", 7)
    /\ LET head == <<Rep(7, SetupTotalSteps, "Creating DNS records...")>>
       IN  \E rd \in RootDomain(run.params.Domain) :
            IF ~rd.ok
            THEN /\ run' = Abort(run, head \o <<Fail("config.RootDomain")>>)
                 /\ zone' = zone
            ELSE \E o \in SyncDNS(zone[rd.root], run.provider, rd.root,
                                  run.params.Domain, run.server.IP) :
                    /\ zone' = [zone EXCEPT ![rd.root] = o.records]
                    /\ run' = IF o.ok
                              THEN Continue(run, head \o <<Ok("config.RootDomain")>>
                                                 \o o.entries)
                              ELSE Abort(run, head \o <<Ok("config.RootDomain")>>
                                              \o o.entries)
    /\ UNCHANGED <<db, save, lastOK, ret, load, serverinit, workflow, wizard, credscreen, runs>>

\* Step 8: Set GitHub Actions secrets
SetupStep8 ==
    /\ Running("setup", 8)
    /\ \E n \in 0..1 :
        run' = Proceed(run, <<Rep(8, SetupTotalSteps, "Setting GitHub secrets...")>>,
                       <<"SetEnvironmentSecrets">>, n)
    /\ UNCHANGED <<db, save, zone, lastOK, ret, load, serverinit, workflow, wizard, credscreen, runs>>

\* Step 9: Generate workflow files
SetupStep9 ==
    /\ Running("setup", 9)
    /\ \E n \in 0..3 :
        run' = Proceed(run, <<Rep(9, SetupTotalSteps, "Generating workflow files...")>>,
                       <<"DefaultBranch", "DeleteStaleWorkflows", "PushWorkflowFile">>, n)
    /\ UNCHANGED <<db, save, zone, lastOK, ret, load, serverinit, workflow, wizard, credscreen, runs>>

\* the Environment Setup stores
SetupEnvironment(params, provider) ==
    [Domain |-> params.Domain, DNSProvider |-> provider,
     Branch |-> IF params.EnvName = "prod" THEN "main" ELSE "dev",
     DeployPath |-> <<"/opt/">> \o deployDirName(params.ProjectName, params.EnvName),
     DeployUser |-> deployUserName(params.ProjectName, params.EnvName),
     Port |-> params.Port]

\* Step 10: Update config: merge the environment and call SaveConfig
SetupStep10 ==
    /\ Running("setup", 10)
    /\ LET p == run.params
           cfg == MergeEnvironment(run.cfg, p.ProjectName, p.Repo, p.ServerName,
                                   p.EnvName, SetupEnvironment(p, run.provider))
       IN  /\ run' = [run EXCEPT !.log = Append(@, Rep(10, SetupTotalSteps,
                                                       "Updating config...")),
                                 !.cfg = cfg, !.status = "saving"]
           /\ \/ save' = OpenTx(db, cfg, "run")
              \/ save' = [OpenTx(db, cfg, "run") EXCEPT !.state = "err"]
    /\ UNCHANGED <<db, zone, lastOK, ret, load, serverinit, workflow, wizard, credscreen, runs>>

(***************************************************************************)
(* service.Deploy                                                          *)
(***************************************************************************)
\* Deploy is called: params.Store.LoadConfig()
DeployStart ==
    /\ run.status = "idle"
    /\ save.state = "idle"
    /\ \E params \in DeployParams :
        \/ run' = NewRun("deploy", params, db)
        \/ run' = Abort(NewRun("deploy", params, db), <<Fail("LoadConfig")>>)
    /\ UNCHANGED <<db, save, zone, lastOK, ret, load, serverinit, workflow, wizard, credscreen, runs>>

\* Step 1: Look up server IP
DeployStep1 ==
    /\ Running("deploy", 1)
    /\ \E o \in ResolveServer(run.cfg, db, run.params.ServerName) :
        LET entries == <<Rep(1, DeployTotalSteps, "Looking up server...")>> \o o.entries
        IN  run' = IF o.ok THEN Continue([run EXCEPT !.server = o.server], entries)
                   ELSE Abort(run, entries)
    /\ UNCHANGED <<db, save, zone, lastOK, ret, load, serverinit, workflow, wizard, credscreen, runs>>

\* Step 2: Detect DNS provider; then resolve the peon key and open the one
\* SSH connection of the run
DeployStep2 ==
    /\ Running("deploy", 2)
    /\ LET head == <<Rep(2, DeployTotalSteps, "Detecting DNS provider...")>>
       IN  \E o \in ProviderForDomain(run.cfg, db, run.params.Domain) :
            IF ~o.ok
            THEN run' = Abort([run EXCEPT !.ns = o.ns],
                              head \o <<Fail("dns.ProviderForDomain")>>)
            ELSE LET k == ResolvePeonKey(db, run.params, run.server.IP) IN
            IF ~k.ok
            THEN run' = Abort([run EXCEPT !.provider = o.name, !.ns = o.ns],
                              head \o <<Ok("dns.ProviderForDomain")>> \o k.entries)
            ELSE \E n \in 0..2 :
                    LET entries == head \o <<Ok("dns.ProviderForDomain")>> \o k.entries
                                   \o Attempt(<<"ssh.ParsePrivateKey", "ssh.Dial">>, n)
                        r == [run EXCEPT !.provider = o.name, !.ns = o.ns,
                                         !.peonKey = k.key]
                    IN  run' = IF n = 2
                               THEN Continue([r EXCEPT !.conn = TRUE], entries)
                               ELSE Abort(r, entries)
    /\ UNCHANGED <<db, save, zone, lastOK, ret, load, serverinit, workflow, wizard, credscreen, runs>>

\* Step 3: Create deploy directory
DeployStep3 ==
    /\ Running("deploy", 3)
    /\ \E n \in 0..2 :
        run' = Proceed(run, <<Rep(3, DeployTotalSteps, "Creating deploy directory...")>>,
                       <<"mkdir deploy dir", "chown deploy dir">>, n)
    /\ UNCHANGED <<db, save, zone, lastOK, ret, load, serverinit, workflow, wizard, credscreen, runs>>

\* Step 4: Upload docker-compose.yml
DeployStep4 ==
    /\ Running("deploy", 4)
    /\ \E n \in 0..3 :
        run' = Proceed(run, <<Rep(4, DeployTotalSteps, "Uploading docker-compose.yml...")>>,
                       <<"os.ReadFile", "tee docker-compose.yml",
                         "chown docker-compose.yml">>, n)
    /\ UNCHANGED <<db, save, zone, lastOK, ret, load, serverinit, workflow, wizard, credscreen, runs>>

\* Step 5: Run docker compose up
DeployStep5 ==
    /\ Running("deploy", 5)
    /\ \E n \in 0..1 :
        run' = Proceed(run, <<Rep(5, DeployTotalSteps, "Starting containers...")>>,
                       <<"docker compose up">>, n)
    /\ UNCHANGED <<db, save, zone, lastOK, ret, load, serverinit, workflow, wizard, credscreen, runs>>

\* Step 6: Generate and deploy Caddy config
DeployStep6 ==
    /\ Running("deploy", 6)
    /\ \E n \in 0..Len(CaddyCmds) :
        LET entries == <<Rep(6, DeployTotalSteps, "Writing Caddy config...")>>
                       \o Attempt(CaddyCmds, n) \o Journal(CaddyCmds, n)
        IN  run' = IF Succeeded(entries) THEN Continue(run, entries)
                   ELSE Abort(run, entries)
    /\ UNCHANGED <<db, save, zone, lastOK, ret, load, serverinit, workflow, wizard, credscreen, runs>>

\* Step 7: Create DNS records
DeployStep7 ==
    /\ Running("deploy", 7)
    /\ LET head == <<Rep(7, DeployTotalSteps, "Creating DNS records...")>>
       IN  \E rd \in RootDomain(run.params.Domain) :
            IF ~rd.ok
            THEN /\ run' = Abort(run, head \o <<Fail("config.RootDomain")>>)
                 /\ zone' = zone
            ELSE \E o \in SyncDNS(zone[rd.root], run.provider, rd.root,
                                  run.params.Domain, run.server.IP) :
                    /\ zone' = [zone EXCEPT ![rd.root] = o.records]
                    /\ run' = IF o.ok
                              THEN Continue(run, head \o <<Ok("config.RootDomain")>>
                                                 \o o.entries)
                              ELSE Abort(run, head \o <<Ok("config.RootDomain")>>
                                              \o o.entries)
    /\ UNCHANGED <<db, save, lastOK, ret, load, serverinit, workflow, wizard, credscreen, runs>>

\* the Environment Deploy stores, always as "prod"
DeployEnvironment(params, provider) ==
    [Domain |-> params.Domain, DNSProvider |-> provider, Branch |-> "",
     DeployPath |-> <<"/opt/", params.ServiceName>>, DeployUser |-> <<"peon">>,
     Port |-> params.Port]

\* Step 8: Save to config
DeployStep8 ==
    /\ Running("deploy", 8)
    /\ LET p == run.params
           cfg == MergeEnvironment(run.cfg, p.ServiceName, "", p.ServerName,
                                   "prod", DeployEnvironment(p, run.provider))
       IN  /\ run' = [run EXCEPT !.log = Append(@, Rep(8, DeployTotalSteps,
                                                       "Updating config...")),
                                 !.cfg = cfg, !.status = "saving"]
           /\ \/ save' = OpenTx(db, cfg, "run")
              \/ save' = [OpenTx(db, cfg, "run") EXCEPT !.state = "err"]
    /\ UNCHANGED <<db, zone, lastOK, ret, load, serverinit, workflow, wizard, credscreen, runs>>

(***************************************************************************)
(* The end of a run                                                        *)
(***************************************************************************)
\* SaveConfig returned to the pipeline: return nil, or "saving config: ..."
RunSaveReturn ==
    /\ run.status = "saving"
    /\ save.state \in {"ok", "err"}
    /\ run' = IF save.state = "ok"
              THEN [run EXCEPT !.log = @ \o <<Ok("SaveConfig")>>
                                         \o (IF run.conn THEN <<Ok("client.Close")>>
                                             ELSE << >>),
                               !.status = "done", !.conn = FALSE]
              ELSE Abort(run, <<Fail("SaveConfig")>>)
    /\ save' = Idle
    /\ UNCHANGED <<db, zone, lastOK, ret, load, serverinit, workflow, wizard, credscreen, runs>>

\* the process was killed inside SaveConfig: there is no run any more
RunKilled ==
    /\ run.status = "saving"
    /\ save.state = "killed"
    /\ run' = NotRunning
    /\ save' = Idle
    /\ UNCHANGED <<db, zone, lastOK, ret, load, serverinit, workflow, wizard, credscreen, runs>>

\* the caller has the result of the run
RunReturn ==
    /\ run.status \in {"done", "failed"}
    /\ run' = NotRunning
    /\ UNCHANGED <<db, save, zone, lastOK, ret, load, serverinit, workflow, wizard, credscreen, runs>>

(***************************************************************************)
(* arnor config init: store a Hetzner token and discover its servers      *)
(***************************************************************************)
\* the Config with every discovered server that it lacks appended
Discovered(cfg, alias, servers) ==
    LET new == {s \in servers : FindServer(cfg, s.Name) = 0}
        ord == Sorted({s.Name : s \in new}, ServerOrder)
    IN  [cfg EXCEPT !.Servers =
            @ \o [i \in 1..Len(ord) |->
                    LET s == CHOOSE s \in new : s.Name = ord[i]
                    IN  [Name |-> s.Name, IP |-> s.IP, HetznerProject |-> alias,
                         HetznerID |-> s.ID]]]

\* runConfigInit with a valid token, the Hetzner account holding the servers
\* cloud: SetCredential, then either ListServers fails (a warning) or the
\* discovered servers are saved
ConfigInitOn(cloud) ==
    /\ run.status = "idle"
    /\ save.state = "idle"
    /\ \E alias \in Aliases :
        LET t == SetCredential(db, "hetzner", alias, "api_token", "secret")
        IN  /\ db' = t
            /\ \/ save' = save
               \/ save' = OpenTx(t, Discovered(LoadConfig(t), alias, cloud[alias]), "init")
               \/ save' = [OpenTx(t, Discovered(LoadConfig(t), alias, cloud[alias]),
                                  "init") EXCEPT !.state = "err"]
    /\ UNCHANGED <<run, zone, lastOK, ret, load, serverinit, workflow, wizard, credscreen, runs>>

ConfigInit == ConfigInitOn(CloudServers)

\* runConfigInit returns (or the killed process is gone)
ConfigInitReturn ==
    /\ save.state \in {"ok", "err", "killed"}
    /\ save.caller = "init"
    /\ save' = Idle
    /\ UNCHANGED <<db, run, zone, lastOK, ret, load, serverinit, workflow, wizard, credscreen, runs>>

(***************************************************************************)
(* Server discovery: first-run setup, config init, adding a Hetzner project *)
(***************************************************************************)
\* the Hetzner account over time: the one host, under the name it was
\* created with or under the name it was renamed to in the console
Clouds ==
    {[a \in Aliases |-> {[Name |-> n, IP |-> ServerIP, ID |-> 42]}] : n \in ServerNames}

\* the servers of a listing as Servers of the project alias, in listing order
AsServers(alias, servers) ==
    LET ord == Sorted({s.Name : s \in servers}, ServerOrder)
    IN  [i \in 1..Len(ord) |->
            LET s == CHOOSE s \in servers : s.Name = ord[i]
            IN  [Name |-> s.Name, IP |-> s.IP, HetznerProject |-> alias,
                 HetznerID |-> s.ID]]

\* setup.updateValidating: every listed server is appended
DiscoveredAll(cfg, alias, servers) ==
    [cfg EXCEPT !.Servers = @ \o AsServers(alias, servers)]

\* credentials.validateHetzner: a listed server is appended unless a Server
\* of the Config has its HetznerID
DiscoveredByID(cfg, alias, servers) ==
    LET new == {s \in servers :
                    \A i \in DOMAIN cfg.Servers : cfg.Servers[i].HetznerID # s.ID}
    IN  [cfg EXCEPT !.Servers = @ \o AsServers(alias, new)]

\* arnor config init, at any time of the account
ConfigInitAnyTime == \E cloud \in Clouds : ConfigInitOn(cloud)

\* the onboarding screen, shown while the store has no Hetzner project: the
\* token validated, SetCredential, LoadConfig, SaveConfig
FirstRunSetup ==
    /\ run.status = "idle"
    /\ save.state = "idle"
    /\ ListHetznerProjects(db) = << >>
    /\ \E alias \in Aliases, cloud \in Clouds :
        LET t == SetCredential(db, "hetzner", alias, "api_token", "secret")
            cfg == DiscoveredAll(LoadConfig(t), alias, cloud[alias])
        IN  /\ db' = t
            /\ \/ save' = OpenTx(t, cfg, "firstrun")
               \/ save' = [OpenTx(t, cfg, "firstrun") EXCEPT !.state = "err"]
    /\ UNCHANGED <<run, zone, lastOK, ret, load, serverinit, workflow, wizard, credscreen, runs>>

\* the credentials screen adds a Hetzner project: the token validated and the
\* servers listed, SetCredential, LoadConfig, SaveConfig
AddHetznerProject ==
    /\ run.status = "idle"
    /\ save.state = "idle"
    /\ \E alias \in Aliases, cloud \in Clouds :
        LET t == SetCredential(db, "hetzner", alias, "api_token", "secret")
            cfg == DiscoveredByID(LoadConfig(t), alias, cloud[alias])
        IN  /\ db' = t
            /\ \/ save' = OpenTx(t, cfg, "addproject")
               \/ save' = [OpenTx(t, cfg, "addproject") EXCEPT !.state = "err"]
    /\ UNCHANGED <<run, zone, lastOK, ret, load, serverinit, workflow, wizard, credscreen, runs>>

\* the screen shows the result (or the killed process is gone)
ScreenDone ==
    /\ save.state \in {"ok", "err", "killed"}
    /\ save.caller \in {"firstrun", "addproject"}
    /\ save' = Idle
    /\ UNCHANGED <<db, run, zone, lastOK, ret, load, serverinit, workflow, wizard, credscreen, runs>>

DiscoverNext ==
    \/ FirstRunSetup
    \/ ConfigInitAnyTime
    \/ AddHetznerProject
    \/ ConfigInitReturn
    \/ ScreenDone
    \/ SaveExec
    \/ SaveExecFail
    \/ SaveCommit
    \/ SaveCommitFail
    \/ SaveInterrupt

SpecDiscover == StoreInit /\ [][DiscoverNext]_vars

(***************************************************************************)
(* The pipelines over a store an operator has configured                   *)
(***************************************************************************)
Init ==
    /\ db \in ConfiguredStores
    /\ save = Idle
    /\ run = NotRunning
    /\ zone = ParkedZone
    /\ lastOK = NoRun
    /\ ret = NoCall
    /\ load = NoLoad
    /\ serverinit = NoScreen
    /\ workflow = NoRepo
    /\ wizard = NoWizard
    /\ credscreen = NoCredScreen
    /\ runs = NoRuns

Next ==
    \/ ConfigInit
    \/ ConfigInitReturn
    \/ SetupStart
    \/ SetupStep1
    \/ SetupStep2
    \/ SetupStep3
    \/ SetupStep4
    \/ SetupStep5
    \/ SetupStep6
    \/ SetupStep7
    \/ SetupStep8
    \/ SetupStep9
    \/ SetupStep10
    \/ DeployStart
    \/ DeployStep1
    \/ DeployStep2
    \/ DeployStep3
    \/ DeployStep4
    \/ DeployStep5
    \/ DeployStep6
    \/ DeployStep7
    \/ DeployStep8
    \/ SaveExec
    \/ SaveExecFail
    \/ SaveCommit
    \/ SaveCommitFail
    \/ SaveInterrupt
    \/ RunSaveReturn
    \/ RunKilled
    \/ RunReturn

Spec == Init /\ [][Next]_vars

(***************************************************************************)
(* The credential and key API of the store, called on a fresh store        *)
(***************************************************************************)
CredTriples ==
    {<<"hetzner", "prod", "api_token">>, <<"hetzner", "prod", "extra">>,
     <<"hetzner", "dev", "api_token">>, <<"porkbun", "default", "api_key">>}
CredValues == {"tok123", "tok456"}
CredOwners == {<<c[1], c[2]>> : c \in CredTriples}
PeonIPs == {"1.2.3.4"}
PeonPEMs == {"PEM", "PEM2"}
PeonPaths == {"~/.ssh/peon_ed25519", "~/.ssh/peon_ed25519_1.2.3.4"}

\* the values the rows of a triple hold
Stored(t, c) == {t.credentials[i].value : i \in CredentialRows(t, c[1], c[2], c[3])}

\* store.SetCredential(service, name, key, value): the Exec runs or fails
SetCredentialCall ==
    /\ \E c \in CredTriples, v \in CredValues, ok \in BOOLEAN :
        /\ db' = IF ok THEN SetCredential(db, c[1], c[2], c[3], v) ELSE db
        /\ ret' = [op |-> "SetCredential", service |-> c[1], name |-> c[2],
                   key |-> c[3], value |-> v, ok |-> ok, had |-> Stored(db, c)]
    /\ UNCHANGED <<save, run, zone, lastOK, load, serverinit, workflow, wizard, credscreen, runs>>

\* store.GetCredential(service, name, key): the query runs or fails; after
\* is the call before it when that call wrote or deleted what is read
GetCredentialCall ==
    /\ \E c \in CredTriples :
        LET related ==
                /\ ret.op \in {"SetCredential", "DeleteCredential"}
                /\ ret.ok
                /\ ret.service = c[1] /\ ret.name = c[2]
                /\ ret.op = "SetCredential" => ret.key = c[3]
            after == IF related THEN ret ELSE NoCall
        IN  \/ \E r \in GetCredential(db, c[1], c[2], c[3]) :
                ret' = [op |-> "GetCredential", service |-> c[1], name |-> c[2],
                        key |-> c[3], ok |-> TRUE, res |-> r, after |-> after]
            \/ ret' = [op |-> "GetCredential", service |-> c[1], name |-> c[2],
                       key |-> c[3], ok |-> FALSE, res |-> NotFound, after |-> after]
    /\ UNCHANGED <<db, save, run, zone, lastOK, load, serverinit, workflow, wizard, credscreen, runs>>

\* store.DeleteCredential(service, name): the Exec runs or fails
DeleteCredentialCall ==
    /\ \E o \in CredOwners, ok \in BOOLEAN :
        /\ db' = IF ok THEN DeleteCredential(db, o[1], o[2]) ELSE db
        /\ ret' = [op |-> "DeleteCredential", service |-> o[1], name |-> o[2],
                   ok |-> ok,
                   had |-> {c \in CredTriples :
                                c[1] = o[1] /\ c[2] = o[2] /\ Stored(db, c) # {}}]
    /\ UNCHANGED <<save, run, zone, lastOK, load, serverinit, workflow, wizard, credscreen, runs>>

\* store.SetPeonKey(serverIP, privateKey, keyPath)
SetPeonKeyCall ==
    /\ \E ip \in PeonIPs, pem \in PeonPEMs, path \in PeonPaths, ok \in BOOLEAN :
        /\ db' = IF ok THEN SetPeonKey(db, ip, pem, path) ELSE db
        /\ ret' = [op |-> "SetPeonKey", ip |-> ip, value |-> pem, path |-> path,
                   ok |-> ok]
    /\ UNCHANGED <<save, run, zone, lastOK, load, serverinit, workflow, wizard, credscreen, runs>>

\* store.GetPeonKey(serverIP)
GetPeonKeyCall ==
    /\ \E ip \in PeonIPs :
        \/ ret' = [op |-> "GetPeonKey", ip |-> ip, ok |-> TRUE,
                   res |-> GetPeonKey(db, ip)]
        \/ ret' = [op |-> "GetPeonKey", ip |-> ip, ok |-> FALSE, res |-> NotFound]
    /\ UNCHANGED <<db, save, run, zone, lastOK, load, serverinit, workflow, wizard, credscreen, runs>>

\* NewSQLiteStore on a new file: the schema and no rows
CredInit ==
    /\ db = EmptyDB
    /\ save = Idle
    /\ run = NotRunning
    /\ zone = Empty
    /\ lastOK = NoRun
    /\ ret = NoCall
    /\ load = NoLoad
    /\ serverinit = NoScreen
    /\ workflow = NoRepo
    /\ wizard = NoWizard
    /\ credscreen = NoCredScreen
    /\ runs = NoRuns

\* store.ListHetznerProjects(): the query runs or fails
ListHetznerProjectsCall ==
    /\ \/ ret' = [op |-> "ListHetznerProjects", ok |-> TRUE,
                  res |-> ListHetznerProjects(db)]
       \/ ret' = [op |-> "ListHetznerProjects", ok |-> FALSE, res |-> << >>]
    /\ UNCHANGED <<db, save, run, zone, lastOK, load, serverinit, workflow, wizard, credscreen, runs>>

CredNext ==
    \/ SetCredentialCall
    \/ GetCredentialCall
    \/ DeleteCredentialCall
    \/ SetPeonKeyCall
    \/ GetPeonKeyCall
    \/ ListHetznerProjectsCall

SpecCred == CredInit /\ [][CredNext]_vars

(***************************************************************************)
(* LoadConfig, query by query, while another run saves                     *)
(***************************************************************************)
\* the Configs the other run saves
OtherConfigs ==
    {c \in Configs :
        /\ Len(c.Servers) = 1
        /\ Len(c.Projects) = 1
        /\ c.Projects[1].Name = "app"
        /\ c.Projects[1].Repo = "org/app"
        /\ DOMAIN c.Projects[1].Environments = {"prod"}}

\* LoadConfig is called: the credentials query of ListHetznerProjects
LoadConfigBegin ==
    /\ load.state = "idle"
    /\ load' = [state |-> "servers", seen |-> {db},
                cfg |-> [HetznerProjects |-> ListHetznerProjects(db),
                         Servers |-> << >>, Projects |-> << >>]]
    /\ UNCHANGED <<db, save, run, zone, lastOK, ret, serverinit, workflow, wizard, credscreen, runs>>

\* SELECT ... FROM servers ORDER BY name, on the database as it is now
LoadConfigServers ==
    /\ load.state = "servers"
    /\ load' = [load EXCEPT !.state = "projects",
                            !.cfg.Servers = LoadConfig(db).Servers]
    /\ UNCHANGED <<db, save, run, zone, lastOK, ret, serverinit, workflow, wizard, credscreen, runs>>

\* SELECT ... FROM projects p LEFT JOIN environments e ..., on the database
\* as it is now
LoadConfigProjects ==
    /\ load.state = "projects"
    /\ load' = [load EXCEPT !.state = "done",
                            !.cfg.Projects = LoadConfig(db).Projects]
    /\ UNCHANGED <<db, save, run, zone, lastOK, ret, serverinit, workflow, wizard, credscreen, runs>>

\* return cfg, nil
LoadConfigReturn ==
    /\ load.state = "done"
    /\ load' = NoLoad
    /\ ret' = [op |-> "LoadConfig", ok |-> TRUE, res |-> load.cfg]
    /\ UNCHANGED <<db, save, run, zone, lastOK, serverinit, workflow, wizard, credscreen, runs>>

\* the other run calls SaveConfig
OtherSaveConfigCall ==
    /\ save.state = "idle"
    /\ \E cfg \in OtherConfigs : save' = OpenTx(db, cfg, "direct")
    /\ UNCHANGED <<db, run, zone, lastOK, ret, load, serverinit, workflow, wizard, credscreen, runs>>

LoadNext ==
    \/ LoadConfigBegin
    \/ LoadConfigServers
    \/ LoadConfigProjects
    \/ LoadConfigReturn
    \/ OtherSaveConfigCall
    \/ SaveExec
    \/ SaveExecFail
    \/ SaveCommit
    \/ SaveCommitFail
    \/ SaveInterrupt
    \/ SaveConfigReturn

SpecLoad == StoreInit /\ [][LoadNext]_vars

\* C17: the Config a LoadConfig returns is the servers, projects and
\* environments of one committed state of the database that existed while
\* the call ran.
C17_LoadIsOneSnapshot ==
    load.state = "done" =>
        \E t \in load.seen :
            /\ load.cfg.Servers = LoadConfig(t).Servers
            /\ load.cfg.Projects = LoadConfig(t).Projects

(***************************************************************************)
(* Server init: the screen, and the task that runs peon.RunRemote          *)
(***************************************************************************)
\* what ~/.ssh/id_ed25519 and ~/.ssh/id_rsa can be: absent, an unencrypted
\* key, or a key protected by a passphrase
KeyFiles == {"missing", "plain", "locked"}

\* the key paths buildAuthMethods walks, in order
KeyPaths == <<"id_ed25519", "id_rsa">>

\* what the user can type at the passphrase prompt
Passphrases == {"right", "wrong"}

\* the reply the screen sends when the prompt is cancelled
Cancelled == "passphrase entry cancelled"

\* the screen at its confirmation phase, host and user chosen: both channels
\* empty, no task
Screen(keys) ==
    [phase |-> "confirm", keys |-> keys, pc |-> "none", idx |-> 1,
     passphraseWait |-> 0, passphraseCh |-> << >>, waiter |-> FALSE,
     cancelled |-> FALSE, after |-> {}, err |-> "", keyFile |-> "", runs |-> 0]

\* what the task did once the prompt of this run was cancelled
Did(what) == IF serverinit.cancelled THEN serverinit.after \cup {what}
             ELSE serverinit.after

\* enter at the confirmation: the task starts and one waiter is armed
updateConfirm ==
    /\ serverinit.phase = "confirm"
    /\ serverinit' = [serverinit EXCEPT !.phase = "running", !.pc = "key",
                                        !.idx = 1, !.waiter = TRUE]
    /\ UNCHANGED <<db, save, run, zone, lastOK, ret, load, workflow, wizard, credscreen, runs>>

\* one step of the task inside buildAuthMethods: the next key path is read
\* and parsed, a protected key asks the screen through KeyPassphraseFunc and
\* waits for the reply; an unreadable file, an error of the callback and a
\* wrong passphrase all continue with the next path
buildAuthMethods ==
    /\ serverinit.phase # "none"
    /\ \/ /\ serverinit.pc = "key"
          /\ \/ /\ serverinit.idx > Len(KeyPaths)
                /\ serverinit' = [serverinit EXCEPT !.pc = "exited",
                        !.err = "no SSH authentication methods available"]
             \/ /\ serverinit.idx <= Len(KeyPaths)
                /\ LET file == serverinit.keys[serverinit.idx] IN
                   \/ /\ file = "missing"
                      /\ serverinit' = [serverinit EXCEPT !.idx = @ + 1]
                   \/ /\ file = "plain"
                      /\ serverinit' = [serverinit EXCEPT !.pc = "dial",
                                            !.after = Did("key")]
                   \/ /\ file = "locked"
                      /\ serverinit.passphraseWait = 0
                      /\ serverinit' = [serverinit EXCEPT !.pc = "recv",
                                            !.passphraseWait = 1,
                                            !.after = Did("request")]
       \/ /\ serverinit.pc = "recv"
          /\ serverinit.passphraseCh # << >>
          /\ LET resp == Head(serverinit.passphraseCh) IN
             serverinit' =
                IF resp = "right"
                THEN [serverinit EXCEPT !.passphraseCh = << >>, !.pc = "dial"]
                ELSE [serverinit EXCEPT !.passphraseCh = << >>,
                                        !.pc = "key", !.idx = @ + 1]
    /\ UNCHANGED <<db, save, run, zone, lastOK, ret, load, workflow, wizard, credscreen, runs>>

\* the task has an auth method: ssh.Dial, then the remote command; any
\* failure is the task's error
RunRemote ==
    /\ serverinit.pc = "dial"
    /\ \E e \in {"", "SSH connect failed", "remote command failed"} :
        serverinit' = [serverinit EXCEPT !.pc = "exited", !.err = e,
                                         !.after = Did("dial")]
    /\ UNCHANGED <<db, save, run, zone, lastOK, ret, load, workflow, wizard, credscreen, runs>>

\* the armed waiter takes the request off passphraseWait and the screen
\* shows the prompt
waitForPassphraseRequest ==
    /\ serverinit.phase = "running"
    /\ serverinit.waiter
    /\ serverinit.passphraseWait = 1
    /\ serverinit' = [serverinit EXCEPT !.phase = "passphrase",
                                        !.passphraseWait = 0,
                                        !.waiter = FALSE]
    /\ UNCHANGED <<db, save, run, zone, lastOK, ret, load, workflow, wizard, credscreen, runs>>

\* the prompt: enter sends what was typed and arms a new waiter, esc sends
\* the cancellation and arms none
updatePassphrase ==
    /\ serverinit.phase = "passphrase"
    /\ Len(serverinit.passphraseCh) = 0
    /\ \/ \E val \in Passphrases :
            serverinit' = [serverinit EXCEPT !.phase = "running",
                                !.passphraseCh = <<val>>, !.waiter = TRUE]
       \/ serverinit' = [serverinit EXCEPT !.phase = "running",
                                !.passphraseCh = <<Cancelled>>,
                                !.cancelled = TRUE]
    /\ UNCHANGED <<db, save, run, zone, lastOK, ret, load, workflow, wizard, credscreen, runs>>

\* runDoneMsg; after a run without error saveKey calls peon.SavePeonKey(host,
\* key), which writes ~/.ssh/peon_ed25519_<host> and the line of
\* ~/.dotfiles/.env, and saveDoneMsg ends the screen
updateRunning ==
    /\ serverinit.phase = "running"
    /\ serverinit.pc = "exited"
    /\ \/ /\ serverinit.err # ""
          /\ serverinit' = [serverinit EXCEPT !.phase = "done", !.pc = "none"]
       \/ /\ serverinit.err = ""
          /\ \/ serverinit' = [serverinit EXCEPT !.phase = "done", !.pc = "none",
                                                !.keyFile = "PEM"]
             \/ serverinit' = [serverinit EXCEPT !.phase = "done", !.pc = "none",
                                                !.err = "failed to write key"]
    /\ UNCHANGED <<db, save, run, zone, lastOK, ret, load, workflow, wizard, credscreen, runs>>

\* bound on the number of times the screen is opened again
MaxScreens == 2

\* enter at the result goes back to the menu; opening the screen again makes
\* a new model with new channels
updateDone ==
    /\ serverinit.phase = "done"
    /\ serverinit.runs + 1 < MaxScreens
    /\ \E keys \in [1..Len(KeyPaths) -> KeyFiles] :
        serverinit' = [Screen(keys) EXCEPT !.runs = serverinit.runs + 1]
    /\ UNCHANGED <<db, save, run, zone, lastOK, ret, load, workflow, wizard, credscreen, runs>>

ServerInitInit ==
    /\ db = EmptyDB
    /\ save = Idle
    /\ run = NotRunning
    /\ zone = Empty
    /\ lastOK = NoRun
    /\ ret = NoCall
    /\ load = NoLoad
    /\ serverinit \in {Screen(keys) : keys \in [1..Len(KeyPaths) -> KeyFiles]}
    /\ workflow = NoRepo
    /\ wizard = NoWizard
    /\ credscreen = NoCredScreen
    /\ runs = NoRuns

ServerInitNext ==
    \/ updateConfirm
    \/ buildAuthMethods
    \/ RunRemote
    \/ waitForPassphraseRequest
    \/ updatePassphrase
    \/ updateRunning
    \/ updateDone

SpecServerInit == ServerInitInit /\ [][ServerInitNext]_vars

\* the same with the scheduling the runtime gives: the task's goroutine runs
\* when it can, the program delivers the messages of its commands, and the
\* user confirms and answers every prompt
SpecServerInitLive ==
    /\ SpecServerInit
    /\ WF_vars(updateConfirm)
    /\ WF_vars(buildAuthMethods)
    /\ WF_vars(RunRemote)
    /\ WF_vars(waitForPassphraseRequest)
    /\ WF_vars(updatePassphrase)
    /\ WF_vars(updateRunning)

(***************************************************************************)
(* Properties of server init                                               *)
(***************************************************************************)
\* C15: once the user has cancelled a passphrase prompt, the task of that run
\* reads no further key, requests no further passphrase and attempts no SSH
\* connection, and it ends with an error.
C15_CancelAbortsTask ==
    serverinit.phase # "none" /\ serverinit.cancelled =>
        /\ serverinit.after = {}
        /\ serverinit.phase = "done" => serverinit.err # ""

\* C22: once the server init screen is done without an error, the key file
\* holds the key of the bootstrap and GetPeonKey of the host returns it.
C22_InitStoresPeonKey ==
    (serverinit.phase = "done" /\ serverinit.err = "") =>
        /\ serverinit.keyFile = "PEM"
        /\ GetPeonKey(db, ServerIP) = [found |-> TRUE, value |-> "PEM"]

(***************************************************************************)
(* The deploy workflow files of a project's GitHub repository              *)
(***************************************************************************)
\* the environment names EnsureWorkflowDispatch is called with
WorkflowEnvs == {"dev", "prod", "staging"}

\* a workflow file by the substrings the check looks for, and who wrote it
File(dispatch, scp, login, by) ==
    [workflow_dispatch |-> dispatch, scp_action |-> scp, docker_login |-> login,
     by |-> by]

Missing == [by |-> "nobody"]

\* the text of devWorkflowTmpl / prodWorkflowTmpl: it has "workflow_dispatch:",
\* "appleboy/scp-action" and "docker/login-action", and no "docker login"
GenerateWorkflow == File(TRUE, TRUE, FALSE, "arnor")

\* what a repository can hold under .github/workflows/deploy-<env>.yml
WorkflowFiles ==
    {Missing, GenerateWorkflow, File(TRUE, TRUE, TRUE, "user"),
     File(TRUE, FALSE, FALSE, "user"), File(FALSE, FALSE, FALSE, "user")}

\* strings.Contains(content, "workflow_dispatch") && ... "scp-action" && ...
\* "docker login"
UpToDate(f) ==
    f # Missing /\ f.workflow_dispatch /\ f.scp_action /\ f.docker_login

\* the results of `gh api repos/<repo>/contents/<path>`: a missing file is an
\* error, and the call can fail for a file that is there
FetchWorkflow(f) ==
    IF f = Missing THEN {[ok |-> FALSE]}
    ELSE {[ok |-> TRUE, content |-> f], [ok |-> FALSE]}

\* PushWorkflowFile: PUT of the content, with the sha of the file when the
\* sha query answers; the outcomes are the file afterwards
PushWorkflowFile(f, content) == {[ok |-> TRUE, file |-> content], [ok |-> FALSE, file |-> f]}

\* EnsureWorkflowDispatch(repo, envName, projectName, dockerHubUsername)
EnsureWorkflowDispatch ==
    /\ workflow # NoRepo
    /\ \E envName \in WorkflowEnvs :
        LET f == workflow[envName]
            call == [op |-> "EnsureWorkflowDispatch", envName |-> envName, before |-> f]
            Regenerate(fetched) ==
                IF envName \notin {"dev", "prod"}
                THEN /\ workflow' = workflow
                     /\ ret' = [ok |-> FALSE, fetched |-> fetched, pushed |-> FALSE] @@ call
                ELSE \E p \in PushWorkflowFile(f, GenerateWorkflow) :
                        /\ workflow' = [workflow EXCEPT ![envName] = p.file]
                        /\ ret' = [ok |-> p.ok, fetched |-> fetched, pushed |-> p.ok] @@ call
        IN  \/ /\ workflow' = workflow
               /\ ret' = [ok |-> FALSE, fetched |-> FALSE, pushed |-> FALSE] @@ call
            \/ \E got \in FetchWorkflow(f) :
                IF ~got.ok THEN Regenerate(FALSE)
                ELSE IF UpToDate(got.content)
                THEN /\ workflow' = workflow
                     /\ ret' = [ok |-> TRUE, fetched |-> TRUE, pushed |-> FALSE] @@ call
                ELSE Regenerate(TRUE)
    /\ UNCHANGED <<db, save, run, zone, lastOK, load, serverinit, wizard, credscreen, runs>>

\* a repository with any of the files under each of the workflow names
WorkflowInit ==
    /\ db = EmptyDB
    /\ save = Idle
    /\ run = NotRunning
    /\ zone = Empty
    /\ lastOK = NoRun
    /\ ret = NoCall
    /\ load = NoLoad
    /\ serverinit = NoScreen
    /\ workflow \in [WorkflowEnvs -> WorkflowFiles]
    /\ wizard = NoWizard
    /\ credscreen = NoCredScreen
    /\ runs = NoRuns

WorkflowNext == EnsureWorkflowDispatch

SpecWorkflow == WorkflowInit /\ [][WorkflowNext]_vars

\* C23: a call of EnsureWorkflowDispatch leaves a file that carries the
\* signature as it was; a call that returns without error for a file that
\* lacks the signature or is missing has pushed the template, which is the
\* file afterwards.
C23_WorkflowEnsured ==
    ret.op = "EnsureWorkflowDispatch" =>
        /\ UpToDate(ret.before) =>
            /\ workflow[ret.envName] = ret.before
            /\ ~ret.pushed
        /\ (~UpToDate(ret.before) /\ ret.ok) =>
            /\ ret.pushed
            /\ workflow[ret.envName] = GenerateWorkflow

(***************************************************************************)
(* project.SuggestPort                                                     *)
(***************************************************************************)
\* bound on the length of usedPorts
MaxPorts == 3

\* the ports a usedPorts list is drawn from
PortPool == {80, 2999, 3000, 3001, 3002, 3004}

\* the lists of at most n elements of S
RECURSIVE SeqsUpTo(_, _)
SeqsUpTo(S, n) ==
    IF n = 0 THEN {<< >>}
    ELSE LET shorter == SeqsUpTo(S, n - 1)
         IN  shorter \cup {Append(q, x) : q \in {r \in shorter : Len(r) = n - 1}, x \in S}

\* for port := 3000; ; port++ { if !used[port] { return port } }
RECURSIVE FirstFree(_, _)
FirstFree(used, port) == IF port \notin used THEN port ELSE FirstFree(used, port + 1)

\* the variant that appends after the highest used port
SuggestPort_AfterMax(usedPorts) ==
    LET used == Range(usedPorts) \cup {2999}
    IN  (CHOOSE m \in used : \A x \in used : x <= m) + 1

\* SuggestPort(usedPorts []int) int
SuggestPort(usedPorts) == FirstFree(Range(usedPorts), 3000)

\* a caller computes a suggestion from the ports it collected
SuggestPortCall ==
    /\ \E usedPorts \in SeqsUpTo(PortPool, MaxPorts) :
        ret' = [op |-> "SuggestPort", usedPorts |-> usedPorts,
                res |-> SuggestPort(usedPorts)]
    /\ UNCHANGED <<db, save, run, zone, lastOK, load, serverinit, workflow, wizard, credscreen, runs>>

SpecSuggestPort == StoreInit /\ [][SuggestPortCall]_vars

\* C24: the port suggested for a list is at least 3000, is not in the list,
\* and every port from 3000 up to it is in the list; the call changes
\* nothing else.
C24_LowestFreePort ==
    /\ ret.op = "SuggestPort" =>
        /\ ret.res >= 3000
        /\ \A i \in DOMAIN ret.usedPorts : ret.usedPorts[i] # ret.res
        /\ \A q \in 3000..(ret.res - 1) :
            \E i \in DOMAIN ret.usedPorts : ret.usedPorts[i] = q
    /\ db = EmptyDB

\* a list out of order with a duplicate and a gap at the floor's neighbour:
\* 3000 and 3001 are used, 3004 is used, the suggestion fills the gap
C24_Witness ==
    /\ ret.op = "SuggestPort"
    /\ ret.usedPorts = <<3004, 3001, 3000>>
    /\ ret.res = 3002

(***************************************************************************)
(* Properties of the credential and key API                                *)
(***************************************************************************)
\* a credentials row of the triple exists
RowExists(t, service, name, key) ==
    \E i \in DOMAIN t.credentials :
        /\ t.credentials[i].service = service
        /\ t.credentials[i].name = name
        /\ t.credentials[i].key = key

\* C11: after any sequence of calls, SetCredential then GetCredential on the
\* same triple returns the value set, also when the triple already had
\* another value; after a SetCredential the triple holds that value only, and
\* the table never has two rows of one (service, name, key).
C11_SetThenGet ==
    /\ \A i \in DOMAIN db.credentials : \A j \in DOMAIN db.credentials :
        (/\ db.credentials[i].service = db.credentials[j].service
         /\ db.credentials[i].name = db.credentials[j].name
         /\ db.credentials[i].key = db.credentials[j].key) => i = j
    /\ (ret.op = "SetCredential" /\ ret.ok) =>
        Stored(db, <<ret.service, ret.name, ret.key>>) = {ret.value}
    /\ (ret.op = "GetCredential" /\ ret.ok /\ ret.after.op = "SetCredential") =>
        ret.res = [found |-> TRUE, value |-> ret.after.value]

\* a GetCredential returned the value of a SetCredential that had overwritten
\* another value, in a table holding other rows too
C11_Witness ==
    /\ ret.op = "GetCredential" /\ ret.ok
    /\ ret.after.op = "SetCredential"
    /\ ret.after.had # {}
    /\ ret.after.value \notin ret.after.had
    /\ ret.res.found /\ ret.res.value = ret.after.value
    /\ Len(db.credentials) > 1

\* C12: a DeleteCredential that ran leaves no row of any key under its
\* service and name, so GetCredential of each finds nothing, as does the
\* GetCredential called next; rows of other names are untouched; with
\* nothing stored under the name the call changes nothing.
C12_DeleteRemovesAllKeys ==
    [][/\ (ret'.op = "DeleteCredential" /\ ret'.ok) =>
            /\ \A c \in CredTriples :
                IF c[1] = ret'.service /\ c[2] = ret'.name
                THEN /\ ~RowExists(db', c[1], c[2], c[3])
                     /\ GetCredential(db', c[1], c[2], c[3]) = {NotFound}
                ELSE Stored(db', c) = Stored(db, c)
            /\ ret'.had = {} => db' = db
       /\ (ret'.op = "GetCredential" /\ ret'.ok /\ ret'.after.op = "DeleteCredential") =>
            ret'.res = NotFound]_vars

\* a GetCredential found nothing right after a DeleteCredential that removed
\* two keys of the name and left another name's row
C12_Witness ==
    /\ ret.op = "GetCredential" /\ ret.ok
    /\ ret.after.op = "DeleteCredential"
    /\ Cardinality(ret.after.had) = 2
    /\ ret.res = NotFound
    /\ db.credentials # << >>

\* C13: a GetCredential whose query ran reports not found exactly when the
\* table has no row of the triple, and a GetPeonKey exactly when it has no
\* row of the server IP; without a row no call returns a value, and a value
\* returned is the row's.
C13_NotFoundIffNoRow ==
    /\ ret.op = "GetCredential" =>
        /\ ret.ok => (ret.res.found <=> RowExists(db, ret.service, ret.name, ret.key))
        /\ ~RowExists(db, ret.service, ret.name, ret.key) => ret.res = NotFound
        /\ ret.res.found =>
            ret.res.value \in Stored(db, <<ret.service, ret.name, ret.key>>)
    /\ ret.op = "GetPeonKey" =>
        /\ ret.ok => (ret.res.found <=> ret.ip \in DOMAIN db.peon_keys)
        /\ ret.ip \notin DOMAIN db.peon_keys => ret.res = NotFound
        /\ ret.res.found => ret.res.value = db.peon_keys[ret.ip].private_key

\* GetCredential on the fresh store found nothing
C13_Witness ==
    /\ ret.op = "GetCredential" /\ ret.ok
    /\ db = EmptyDB
    /\ ret.res = NotFound

\* C14: after any sequence of discovery runs, no two servers rows stand for
\* the same host: two rows of different names differ in hetzner_id and in ip
\* (the name itself is the table's UNIQUE key).
C14_OneNamePerHost ==
    \A n1 \in DOMAIN db.servers : \A n2 \in DOMAIN db.servers :
        n1 # n2 =>
            /\ db.servers[n1].hetzner_id # db.servers[n2].hetzner_id
            /\ db.servers[n1].ip # db.servers[n2].ip

(***************************************************************************)
(* Views used by the properties of the store                               *)
(***************************************************************************)
\* the project named n of a loaded Config
ProjectOf(cfg, n) == cfg.Projects[FindProject(cfg, n)]

\* the (project name, environment name) pairs that have a row
EnvRows(t) ==
    {<<n, e>> \in (DOMAIN t.projects) \X EnvNames :
        <<t.projects[n].id, e>> \in DOMAIN t.environments}

\* every server, project and environment of cfg is in the loaded Config l,
\* field for field
AllVisible(cfg, l) ==
    /\ \A i \in DOMAIN cfg.Servers : cfg.Servers[i] \in Range(l.Servers)
    /\ \A i \in DOMAIN cfg.Projects :
        LET p == cfg.Projects[i]
        IN  /\ FindProject(l, p.Name) # 0
            /\ ProjectOf(l, p.Name).Repo = p.Repo
            /\ ProjectOf(l, p.Name).Server = p.Server
            /\ \A e \in DOMAIN p.Environments :
                /\ e \in DOMAIN ProjectOf(l, p.Name).Environments
                /\ ProjectOf(l, p.Name).Environments[e] = p.Environments[e]

(***************************************************************************)
(* Views used by the properties of the pipelines                           *)
(***************************************************************************)
\* the call a log entry stands for
Act(e) == IF e.ev = "report" THEN "onProgress" ELSE e.act

\* the progress reports of a log, in order
Reports(log) == SelectSeq(log, LAMBDA e : e.ev = "report")

TotalSteps(kind) == IF kind = "setup" THEN SetupTotalSteps ELSE DeployTotalSteps

\* a failed call other than the www CNAME creation; the per-project queries
\* inside mgr.GetServer are parts of that one call
FailedAction(e) ==
    /\ e.ev = "fail"
    /\ e.act \notin {"CreateRecord www CNAME", "client.GetServer"}

\* what a returning run still does: the deferred Close and the journal
\* query that goes into the error message
Unwinding(e) == e.ev = "diag" \/ Act(e) = "client.Close"

\* the project and the environment a run stores
TargetOf(r) ==
    IF r.kind = "setup" THEN <<r.params.ProjectName, r.params.EnvName>>
    ELSE <<r.params.ServiceName, "prod">>

\* the environments row of a (project name, environment name) pair
EnvRow(t, k) == t.environments[<<t.projects[k[1]].id, k[2]>>]

\* the A, CNAME and ALIAS records named like the domain, over all zones
AddressRecords(domain) ==
    {r \in UNION {zone[z] : z \in DOMAIN zone} :
        r.Name = domain /\ r.Type \in {"A", "CNAME", "ALIAS"}}

\* C1: in Setup and in Deploy, when a call other than the www CNAME creation
\* fails the run returns an error at once: the log holds no later call and
\* no later progress report, and the run ends failed with the database as it
\* was when the run started.
C1_FailureAbortsRun ==
    run.status # "idle" =>
        /\ \A i \in DOMAIN run.log : \A j \in DOMAIN run.log :
            (i < j /\ FailedAction(run.log[i])) => Unwinding(run.log[j])
        /\ (\E i \in DOMAIN run.log : FailedAction(run.log[i])) =>
            (run.status = "failed" /\ db = run.before)

C3_OtherEnvironmentsUntouched ==
    run.status # "idle" =>
        \A k \in EnvRows(run.before) \ {TargetOf(run)} :
            /\ k \in EnvRows(db)
            /\ EnvRow(db, k) = EnvRow(run.before, k)

\* a Setup for "prod" of a project that had a "dev" environment has saved
C3_Witness ==
    /\ run.status = "done"
    /\ run.kind = "setup"
    /\ TargetOf(run) = <<"app", "prod">>
    /\ <<"app", "dev">> \in EnvRows(run.before)
    /\ <<"app", "prod">> \notin EnvRows(run.before)
    /\ <<"app", "prod">> \in EnvRows(db)

\* C4: when the store holds a Hetzner credential and no row of the target
\* server, a run that has begun DNS-provider resolution made exactly one
\* cloud lookup and the store holds a row of that server with the resolved IP.
C4_ResolvedServerPersisted ==
    (/\ run.status # "idle"
     /\ ListHetznerProjects(run.before) # << >>
     /\ run.params.ServerName \notin DOMAIN run.before.servers
     /\ \E i \in DOMAIN run.log : run.log[i].ev = "report" /\ run.log[i].step = 2)
    =>
        /\ Cardinality({i \in DOMAIN run.log : Act(run.log[i]) = "mgr.GetServer"}) = 1
        /\ run.params.ServerName \in DOMAIN db.servers
        /\ db.servers[run.params.ServerName].ip = run.server.IP

\* C5: after a successful run the zone holds exactly one A, CNAME or ALIAS
\* record named like the run's domain: an A record with the server's IP.
C5_OneAddressRecord ==
    run.status = "done" =>
        /\ Cardinality(AddressRecords(run.params.Domain)) = 1
        /\ \A r \in AddressRecords(run.params.Domain) :
            r.Type = "A" /\ r.Content = run.server.IP

\* C6: in the DNS step the A record is created only after the records were
\* listed and every listed A, CNAME or ALIAS record of the domain was deleted;
\* the www CNAME is attempted right after the A record was created; and a
\* failed www CNAME creation is not what a failed run failed of.
C6_RemoveThenCreate ==
    run.status # "idle" =>
        \A i \in DOMAIN run.log :
            /\ (Act(run.log[i]) = "CreateRecord A" /\ run.log[i].ev = "ok") =>
                /\ \E j \in 1..(i - 1) :
                    Act(run.log[j]) = "ListRecords" /\ run.log[j].ev = "ok"
                /\ \A j \in 1..(i - 1) :
                    Act(run.log[j]) = "DeleteRecord" => run.log[j].ev = "ok"
            /\ Act(run.log[i]) = "CreateRecord www CNAME" =>
                /\ i > 1
                /\ Act(run.log[i - 1]) = "CreateRecord A" /\ run.log[i - 1].ev = "ok"
                /\ run.status = "failed" =>
                    \E j \in (i + 1)..Len(run.log) : run.log[j].ev = "fail"

\* C7: Deploy is idempotent on the store.  When the last run that saved was a
\* Deploy with the same parameters, the commit of a Deploy changes nothing; a
\* run that fails leaves the store as it found it, so a retry starts from the
\* same store; and what a Deploy commits is decided by that store and the
\* parameters: the "prod" environment built from the parameters, every other
\* row as it was.
C7_DeployIdempotent ==
    [][/\ (/\ run.status = "saving" /\ run.kind = "deploy"
           /\ save.state = "open" /\ save'.state = "ok"
           /\ lastOK.kind = "deploy" /\ lastOK.params = run.params)
          => db' = db
       /\ run'.status = "failed" => db' = run'.before
       /\ (/\ run.status = "saving" /\ run.kind = "deploy"
           /\ save.state = "open" /\ save'.state = "ok")
          => /\ db'.servers = db.servers
             /\ DOMAIN db'.projects = (DOMAIN db.projects) \cup {run.params.ServiceName}
             /\ \A n \in DOMAIN db.projects : db'.projects[n] = db.projects[n]
             /\ EnvRows(db') = EnvRows(db) \cup {TargetOf(run)}
             /\ \A k \in EnvRows(db) \ {TargetOf(run)} : EnvRow(db', k) = EnvRow(db, k)
             /\ ScanEnvironment(EnvRow(db', TargetOf(run)))
                    = DeployEnvironment(run.params, run.provider)]_vars

\* a second Deploy committed over the environment an earlier Deploy had stored
C7_Witness ==
    /\ run.status = "saving"
    /\ run.kind = "deploy"
    /\ save.state = "ok"
    /\ lastOK.kind = "deploy" /\ lastOK.params = run.params
    /\ TargetOf(run) \in EnvRows(run.before)
    /\ EnvRow(run.before, TargetOf(run)).deploy_user = <<"peon">>
    /\ db = run.before

\* C8: SaveConfig is atomic.  While a call is inside its transaction, and
\* after it failed or was interrupted, the database is the one the call
\* started from (no upsert of the call is visible); after it succeeded every
\* server, project and environment of the Config is visible.
C8_SaveConfigAtomic ==
    /\ save.state \in {"open", "err", "killed"} => db = save.before
    /\ save.state = "ok" => AllVisible(save.cfg, LoadConfig(db))

\* a call that failed or was interrupted after some of its upserts had changed rows
C8_Witness ==
    /\ save.state \in {"err", "killed"}
    /\ save.done > 0
    /\ save.work # save.before

C10_SaveConfigNeverDeletes ==
    [][/\ DOMAIN db.servers \subseteq DOMAIN db'.servers
       /\ DOMAIN db.projects \subseteq DOMAIN db'.projects
       /\ EnvRows(db) \subseteq EnvRows(db')]_vars

\* a successful call whose Config lacked a stored server, a stored project
\* and a stored environment of a project it did contain
C10_Witness ==
    /\ save.state = "ok"
    /\ \E n \in DOMAIN save.before.servers :
        \A i \in DOMAIN save.cfg.Servers : save.cfg.Servers[i].Name # n
    /\ \E n \in DOMAIN save.before.projects : FindProject(save.cfg, n) = 0
    /\ \E k \in EnvRows(save.before) :
        /\ FindProject(save.cfg, k[1]) # 0
        /\ k[2] \notin DOMAIN ProjectOf(save.cfg, k[1]).Environments
        /\ k \in EnvRows(db)

\* the calls of a log that succeeded in doing act
Done(log, act) == SelectSeq(log, LAMBDA e : e.ev = "ok" /\ e.act = act)

\* the calls made over a remote session
RemoteCommands ==
    {"RunSetup commands", "RunSetup read deploy key", "tee docker-compose.yml",
     "chown docker-compose.yml", "mkdir deploy dir", "chown deploy dir",
     "docker compose up"} \cup Range(CaddyCmds)

\* C16: a run dials the host at most once, every remote command of the run
\* is made after that dial and before its close, and a run that has returned
\* has closed the session it opened.
C16_OneSessionPerRun ==
    run.status # "idle" =>
        /\ Len(Done(run.log, "ssh.Dial")) <= 1
        /\ \A i \in DOMAIN run.log :
            (run.log[i].ev # "report" /\ run.log[i].act \in RemoteCommands) =>
                /\ \E j \in 1..(i - 1) : run.log[j] = Ok("ssh.Dial")
                /\ \A j \in 1..(i - 1) : run.log[j] # Ok("client.Close")
        /\ run.status \in {"done", "failed"} =>
            Len(Done(run.log, "client.Close")) = Len(Done(run.log, "ssh.Dial"))

\* C18: in the log of every run, a reload of the proxy comes directly after a
\* successful validation of the proxy's configuration; a failed validation
\* fails the run with no reload in it; a failed reload fails the run and is
\* followed by the query of the service's journal whose output goes into the
\* error.
C18_ValidateBeforeReload ==
    run.status # "idle" =>
        \A i \in DOMAIN run.log :
            /\ Act(run.log[i]) = "systemctl reload caddy" =>
                /\ i > 1
                /\ run.log[i - 1] = Ok("caddy validate")
            /\ run.log[i] = Fail("caddy validate") =>
                /\ run.status = "failed"
                /\ \A j \in DOMAIN run.log : Act(run.log[j]) # "systemctl reload caddy"
            /\ run.log[i] = Fail("systemctl reload caddy") =>
                /\ run.status = "failed"
                /\ i < Len(run.log)
                /\ run.log[i + 1] = [ev |-> "diag", act |-> "journalctl"]

\* a run whose validation succeeded and whose reload failed
C18_Witness ==
    /\ run.status = "failed"
    /\ \E i \in DOMAIN run.log :
        /\ i > 1
        /\ run.log[i - 1] = Ok("caddy validate")
        /\ run.log[i] = Fail("systemctl reload caddy")
        /\ i < Len(run.log)
        /\ run.log[i + 1].ev = "diag"

\* the calls that open a remote session
SessionCalls == {"ssh.ParsePrivateKey", "ssh.Dial"}

\* C19: a run that opens a remote session does it with params.PeonKey when
\* that is given, without asking the store, and otherwise with the store's
\* key of the resolved server's IP; a run with neither fails at GetPeonKey
\* and its log has no call that opens a session.
C19_PeonKeySource ==
    run.status # "idle" =>
        LET given == run.params.PeonKey # ""
            opens == \E i \in DOMAIN run.log : Act(run.log[i]) \in SessionCalls
            asked == \E i \in DOMAIN run.log : Act(run.log[i]) = "GetPeonKey"
        IN  /\ (opens /\ given) => run.peonKey = run.params.PeonKey /\ ~asked
            /\ (opens /\ ~given) =>
                /\ HasPeonKey(db, run.server.IP)
                /\ run.peonKey = GetPeonKey(db, run.server.IP).value
            /\ (~given /\ run.server # NoServer /\ ~HasPeonKey(db, run.server.IP)) =>
                /\ ~opens
                /\ asked => run.status = "failed"
            /\ (\E i \in DOMAIN run.log : run.log[i] = Fail("GetPeonKey")) =>
                run.status = "failed" /\ ~opens

\* a run without params.PeonKey dialled the host with the store's key, and
\* the store holds a key that differs from every key a caller passes
C19_Witness ==
    /\ run.status # "idle"
    /\ run.params.PeonKey = ""
    /\ \E i \in DOMAIN run.log : run.log[i] = Ok("ssh.Dial")
    /\ run.peonKey = db.peon_keys[run.server.IP].private_key

\* the providers of the stored environments whose domain is the run's domain
StoredProviders(r) ==
    LET cfg == LoadConfig(r.before)
    IN  UNION {{cfg.Projects[i].Environments[e].DNSProvider :
                    e \in {x \in DOMAIN cfg.Projects[i].Environments :
                            cfg.Projects[i].Environments[x].Domain = r.params.Domain}} :
               i \in DOMAIN cfg.Projects}

MaxLabels == 3

\* the domain of n labels: ... sub.sub.example.com
DomainOf(n) ==
    [i \in 1..n |-> CASE i = n -> "com" [] i = n - 1 -> "example" [] OTHER -> "sub"]

HostPorkbun == <<"curitiba.ns.", "PORKBUN", ".com">>
HostCloudflare == <<"ns1.", "CloudFlare", ".com">>
HostOther == <<"ns1.", "registrar", ".net">>

\* what net.LookupNS can return for one name: records without an error, an
\* error without records, no record and no error, and records that come with
\* an error because another record of the answer was malformed
LookupResults ==
    {[err |-> TRUE, nss |-> << >>],
     [err |-> FALSE, nss |-> << >>],
     [err |-> FALSE, nss |-> <<HostPorkbun>>],
     [err |-> FALSE, nss |-> <<HostOther>>],
     [err |-> FALSE, nss |-> <<HostOther, HostCloudflare>>],
     [err |-> FALSE, nss |-> <<HostCloudflare, HostPorkbun>>],
     [err |-> TRUE, nss |-> <<HostPorkbun>>]}

RootDomainCall ==
    /\ ret = NoCall
    /\ \E n \in 1..MaxLabels :
        \E ns \in [Suffixes(DomainOf(n)) -> LookupResults] :
            ret' = [op |-> "RootDomain", domain |-> DomainOf(n), ns |-> ns,
                    res |-> RootDomainOf(ns, DomainOf(n))]
    /\ UNCHANGED <<db, save, run, zone, lastOK, load, serverinit, workflow, wizard, credscreen, runs>>

DetectDNSProviderCall ==
    /\ ret = NoCall
    /\ \E n \in 1..MaxLabels :
        \E ns \in [Suffixes(DomainOf(n)) -> LookupResults] :
            ret' = [op |-> "DetectDNSProvider", domain |-> DomainOf(n), ns |-> ns,
                    res |-> DetectDNSProviderOf(ns, DomainOf(n))]
    /\ UNCHANGED <<db, save, run, zone, lastOK, load, serverinit, workflow, wizard, credscreen, runs>>

\* the head of step 7 of Setup and of Deploy: the zone root of the target
\* domain, then the name the records are created under
SubNameCall ==
    /\ ret = NoCall
    /\ \E n \in 1..MaxLabels :
        \E ns \in [Suffixes(DomainOf(n)) -> LookupResults] :
            LET r == RootDomainOf(ns, DomainOf(n))
            IN  ret' = [op |-> "subName", domain |-> DomainOf(n), ns |-> ns,
                        res |-> [ok |-> r.ok, rootDomain |-> r.root,
                                 subName |-> IF r.ok THEN SubName(DomainOf(n), r.root)
                                             ELSE << >>]]
    /\ UNCHANGED <<db, save, run, zone, lastOK, load, serverinit, workflow, wizard, credscreen, runs>>

LookupNext == RootDomainCall \/ DetectDNSProviderCall \/ SubNameCall

SpecLookup == StoreInit /\ [][LookupNext]_vars

\* the names the walk may return: the domain, and what is left of it with two
\* labels or more
Candidates(d) == {c \in Suffixes(d) : c = d \/ Len(c) >= 2}

\* the candidates of the call for which the resolver returned a record
WithRecords == {c \in Candidates(ret.domain) : Len(ret.ns[c].nss) > 0}

\* the candidates of the call whose lookup returned a record and no error
CleanAnswers == {c \in WithRecords : ~ret.ns[c].err}

\* the longest name of a non-empty set of suffixes
First(S) == CHOOSE c \in S : \A o \in S : Len(o) <= Len(c)

\* C25: RootDomain succeeds exactly when some candidate (the domain, or a
\* suffix of it down to two labels) has a nameserver record, and then returns
\* the longest such candidate.
C25_FirstSuffixWithNS ==
    ret.op = "RootDomain" =>
        /\ ret.res.ok <=> WithRecords # {}
        /\ ret.res.ok => ret.res.root = First(WithRecords)

\* the same with "has a record" read as "the lookup returned a record and no
\* error"
C25_FirstCleanAnswer ==
    ret.op = "RootDomain" =>
        /\ ret.res.ok <=> CleanAnswers # {}
        /\ ret.res.ok => ret.res.root = First(CleanAnswers)

C25_WitnessClean ==
    /\ ret.op = "RootDomain"
    /\ ret.domain = <<"sub", "example", "com">>
    /\ CleanAnswers = {<<"example", "com">>}
    /\ ret.res = [ok |-> TRUE, root |-> <<"example", "com">>]

\* the providers named, whatever the case, in the hosts of a list
ProvidersIn(nss) ==
    {p \in {"porkbun", "cloudflare"} : \E i \in DOMAIN nss : LowerContains(nss[i], p)}

\* C26: DetectDNSProvider looks at the first candidate that has a nameserver
\* record: it returns a provider whose name occurs, whatever the case, in one
\* of that candidate's hosts, and when none occurs it fails and its error
\* lists those hosts; with no record at any candidate it fails listing
\* nothing.
C26_ProviderAtFirstSuffix ==
    ret.op = "DetectDNSProvider" =>
        IF WithRecords = {} THEN ret.res = NoProvider
        ELSE LET nss == ret.ns[First(WithRecords)].nss
             IN  IF ProvidersIn(nss) # {}
                 THEN ret.res.ok /\ ret.res.name \in ProvidersIn(nss)
                 ELSE ret.res = [ok |-> FALSE, name |-> "", unmatched |-> nss]

\* the same over the candidates whose lookup returned no error
C26_ProviderAtFirstCleanAnswer ==
    ret.op = "DetectDNSProvider" =>
        IF CleanAnswers = {} THEN ret.res = NoProvider
        ELSE LET nss == ret.ns[First(CleanAnswers)].nss
             IN  IF ProvidersIn(nss) # {}
                 THEN ret.res.ok /\ ret.res.name \in ProvidersIn(nss)
                 ELSE ret.res = [ok |-> FALSE, name |-> "", unmatched |-> nss]

C26_WitnessUnmatched ==
    /\ ret.op = "DetectDNSProvider"
    /\ ret.domain = <<"sub", "example", "com">>
    /\ CleanAnswers = {<<"example", "com">>}
    /\ ret.res = [ok |-> FALSE, name |-> "", unmatched |-> <<HostOther>>]

\* C27: once the zone root of the target domain is known, the name the records
\* are created under is empty exactly when the domain is the root, and
\* otherwise is the non-empty run of labels that, put in front of the root,
\* gives the domain.
C27_SubNameIsRemainder ==
    (ret.op = "subName" /\ ret.res.ok) =>
        /\ ret.res.subName = << >> <=> ret.domain = ret.res.rootDomain
        /\ ret.res.subName \o ret.res.rootDomain = ret.domain

C27_Witness ==
    /\ ret.op = "subName"
    /\ ret.domain = <<"sub", "example", "com">>
    /\ ret.res = [ok |-> TRUE, rootDomain |-> <<"example", "com">>,
                  subName |-> <<"sub">>]

(***************************************************************************)
(* The domain check: filterRecords, computeSummary, LookupContext          *)
(***************************************************************************)
MaxListed == 2

\* strings.TrimSuffix(name, "."): the trailing dot of a name is its last,
\* empty label
TrimDot(name) ==
    IF Len(name) > 0 /\ name[Len(name)] = "" THEN SubSeq(name, 1, Len(name) - 1)
    ELSE name

\* strings.HasSuffix(name, "." + domain)
HasDotSuffix(name, domain) ==
    /\ Len(name) > Len(domain)
    /\ SubSeq(name, Len(name) - Len(domain) + 1, Len(name)) = domain

\* the test of filterRecords on one record
keepRecord(r, domain) ==
    /\ r.Type \in {"A", "CNAME"}
    /\ LET name == TrimDot(r.Name)
       IN  \/ name = domain
           \/ name = <<"www">> \o domain
           \/ name = << >>
           \/ name = <<"www">>
           \/ HasDotSuffix(name, domain)

\* filterRecords(records, domain)
filterRecords(records, domain) ==
    LET keep(r) == keepRecord(r, domain) IN SelectSeq(records, keep)

\* the names relative to a zone that a listing is made of
ShortNames ==
    {<< >>, <<"www">>, <<"api">>, <<"sub">>, <<"www", "sub">>, <<"api", "sub">>}

\* the names a provider can list for a zone: relative to the zone, or fully
\* qualified, with a trailing dot or without
ListedNames(root) ==
    ShortNames \cup {s \o root : s \in ShortNames} \cup {root \o <<"">>}

ListedRecords(root) ==
    [Type : {"A", "CNAME", "TXT", "MX"}, Name : ListedNames(root)]

\* the domains checked, all of the zone example.com
CheckedDomains == {Apex, <<"sub">> \o Apex}

\* Check, from the listing of the zone to the records it shows
FilterRecordsCall ==
    /\ ret = NoCall
    /\ \E domain \in CheckedDomains :
        \E records \in SeqsUpTo(ListedRecords(Apex), MaxListed) :
            ret' = [op |-> "filterRecords", domain |-> domain, rootDomain |-> Apex,
                    records |-> records, res |-> filterRecords(records, domain)]
    /\ UNCHANGED <<db, save, run, zone, lastOK, load, serverinit, workflow, wizard, credscreen, runs>>

\* the variant that looks at the project context before the resolution
computeSummary_ContextFirst(r) ==
    IF r.Context = << >> THEN "WARN"
    ELSE IF r.Resolution.Status = "FAIL" THEN "FAIL"
    ELSE IF r.Resolution.Status = "PASS" THEN "PASS"
    ELSE "WARN"

\* computeSummary(r); r.Context is << >> for nil, <<ctx>> otherwise
computeSummary(r) ==
    IF r.Resolution.Status = "FAIL" THEN "FAIL"
    ELSE IF r.Context = << >> THEN "WARN"
    ELSE IF r.Resolution.Status = "PASS" THEN "PASS"
    ELSE "WARN"

CheckStatuses == {"PASS", "FAIL", "WARN", "SKIP"}

\* the contexts a result can carry
Contexts ==
    {<< >>} \cup
    {<<[ProjectName |-> "app", EnvName |-> "prod", ServerName |-> "web1",
        ExpectedIP |-> ip, Port |-> 3000]>> : ip \in {"", ServerIP}}

ComputeSummaryCall ==
    /\ ret = NoCall
    /\ \E status \in CheckStatuses, ctx \in Contexts :
        LET r == [Resolution |-> [Status |-> status], Context |-> ctx]
        IN  ret' = [op |-> "computeSummary", r |-> r, res |-> computeSummary(r)]
    /\ UNCHANGED <<db, save, run, zone, lastOK, load, serverinit, workflow, wizard, credscreen, runs>>

\* the context LookupContext builds for environment e of project p
ContextOf(c, p, e) ==
    [ProjectName |-> p.Name, EnvName |-> e, ServerName |-> p.Server,
     ExpectedIP |-> IF FindServer(c, p.Server) # 0
                    THEN c.Servers[FindServer(c, p.Server)].IP ELSE "",
     Port |-> p.Environments[e].Port]

\* the variant that leaves ExpectedIP empty
LookupContext_NoExpectedIP(cfg, domain) ==
    IF cfg = << >> THEN {<< >>}
    ELSE LET c == cfg[1]
             hits(i) == {e \in DOMAIN c.Projects[i].Environments :
                            c.Projects[i].Environments[e].Domain = domain}
         IN  IF \E i \in DOMAIN c.Projects : hits(i) # {}
             THEN LET i == CHOOSE i \in DOMAIN c.Projects :
                            hits(i) # {} /\ \A j \in 1..(i - 1) : hits(j) = {}
                  IN  {<<[ContextOf(c, c.Projects[i], e) EXCEPT !.ExpectedIP = ""]>> :
                        e \in hits(i)}
             ELSE {<< >>}

\* LookupContext(cfg, domain): cfg is << >> for nil, <<c>> otherwise, and so is
\* each result. The projects are visited in order; the environments of a
\* project are a Go map, visited in any order, so that the result is one of
\* the matching environments of the first project that has one.
LookupContext(cfg, domain) ==
    IF cfg = << >> THEN {<< >>}
    ELSE LET c == cfg[1]
             hits(i) == {e \in DOMAIN c.Projects[i].Environments :
                            c.Projects[i].Environments[e].Domain = domain}
         IN  IF \E i \in DOMAIN c.Projects : hits(i) # {}
             THEN LET i == CHOOSE i \in DOMAIN c.Projects :
                            hits(i) # {} /\ \A j \in 1..(i - 1) : hits(j) = {}
                  IN  {<<ContextOf(c, c.Projects[i], e)>> : e \in hits(i)}
             ELSE {<< >>}

\* the domains asked for: the two of the configurations, a subdomain of one
\* and a name of no environment
AskedDomains ==
    {e.Domain : e \in CfgEnvRecs} \cup {<<"www", "app", "com">>, <<"other", "org">>}

LookupContextCall ==
    /\ ret = NoCall
    /\ \E cfg \in {<< >>} \cup {<<c>> : c \in Configs}, domain \in AskedDomains :
        \E res \in LookupContext(cfg, domain) :
            ret' = [op |-> "LookupContext", cfg |-> cfg, domain |-> domain, res |-> res]
    /\ UNCHANGED <<db, save, run, zone, lastOK, load, serverinit, workflow, wizard, credscreen, runs>>

CheckNext == FilterRecordsCall \/ ComputeSummaryCall \/ LookupContextCall

SpecCheck == StoreInit /\ [][CheckNext]_vars

\* the fully qualified name that a listed name stands for in its zone
Denoted(name, root) ==
    LET n == TrimDot(name)
    IN  IF n = root \/ HasDotSuffix(n, root) THEN n ELSE n \o root

\* a fully qualified name is the domain, its www alias or a subdomain of it
Relevant(fqdn, domain) ==
    \/ fqdn = domain
    \/ fqdn = <<"www">> \o domain
    \/ HasDotSuffix(fqdn, domain)

\* C28: filterRecords returns, in input order, exactly the records of type A
\* or CNAME whose name, fully qualified or relative to the zone, stands for
\* the domain, its www alias or a subdomain of it.
C28_FilterKeepsRelevant ==
    ret.op = "filterRecords" =>
        ret.res = SelectSeq(ret.records,
                            LAMBDA r : /\ r.Type \in {"A", "CNAME"}
                                       /\ Relevant(Denoted(r.Name, ret.rootDomain),
                                                   ret.domain))

\* the same for a listing of fully qualified names
C28_FilterOfQualifiedNames ==
    (/\ ret.op = "filterRecords"
     /\ \A i \in DOMAIN ret.records :
            Denoted(ret.records[i].Name, ret.rootDomain) = TrimDot(ret.records[i].Name)) =>
        ret.res = SelectSeq(ret.records,
                            LAMBDA r : /\ r.Type \in {"A", "CNAME"}
                                       /\ Relevant(TrimDot(r.Name), ret.domain))

\* whatever the names, only records of type A and CNAME are returned, in the
\* order of the input
C28_OnlyAddressTypes ==
    ret.op = "filterRecords" =>
        /\ \A i \in DOMAIN ret.res : ret.res[i].Type \in {"A", "CNAME"}
        /\ \E keep \in SUBSET DOMAIN ret.records :
            ret.res = [i \in 1..Cardinality(keep) |->
                        ret.records[CHOOSE k \in keep :
                                        Cardinality({j \in keep : j <= k}) = i]]

\* C29: the summary is FAIL when the resolution failed, with a context or
\* without; otherwise WARN when there is no context; otherwise PASS when the
\* resolution passed and WARN when it did not.
C29_SummaryTable ==
    ret.op = "computeSummary" =>
        LET status == ret.r.Resolution.Status
        IN  /\ status = "FAIL" => ret.res = "FAIL"
            /\ (status # "FAIL" /\ ret.r.Context = << >>) => ret.res = "WARN"
            /\ (status # "FAIL" /\ ret.r.Context # << >>) =>
                /\ ret.res = "PASS" <=> status = "PASS"
                /\ status # "PASS" => ret.res = "WARN"

C29_Witness ==
    /\ ret.op = "computeSummary"
    /\ ret.r.Resolution.Status = "FAIL"
    /\ ret.r.Context = << >>
    /\ ret.res = "FAIL"

\* the environments of a configuration that have the domain
Matches(c, domain) ==
    {<<i, e>> \in (DOMAIN c.Projects) \X EnvNames :
        /\ e \in DOMAIN c.Projects[i].Environments
        /\ c.Projects[i].Environments[e].Domain = domain}

\* C30: LookupContext returns nil for a nil configuration and when no
\* environment has exactly the domain; otherwise it returns the project name,
\* environment name, server name and port of an environment that has the
\* domain, and as ExpectedIP the IP of that project's server, empty when the
\* server is not in the inventory.
C30_ContextOfMatch ==
    ret.op = "LookupContext" =>
        IF ret.cfg = << >> THEN ret.res = << >>
        ELSE LET c == ret.cfg[1]
             IN  /\ ret.res # << >> <=> Matches(c, ret.domain) # {}
                 /\ ret.res # << >> =>
                    \E m \in Matches(c, ret.domain) :
                        LET p == c.Projects[m[1]]
                            known == \E i \in DOMAIN c.Servers : c.Servers[i].Name = p.Server
                        IN  /\ ret.res[1].ProjectName = p.Name
                            /\ ret.res[1].EnvName = m[2]
                            /\ ret.res[1].ServerName = p.Server
                            /\ ret.res[1].Port = p.Environments[m[2]].Port
                            /\ known => \E i \in DOMAIN c.Servers :
                                    /\ c.Servers[i].Name = p.Server
                                    /\ ret.res[1].ExpectedIP = c.Servers[i].IP
                            /\ ~known => ret.res[1].ExpectedIP = ""

C30_WitnessFound ==
    /\ ret.op = "LookupContext"
    /\ ret.cfg # << >>
    /\ ret.domain = <<"app", "com">>
    /\ ret.res # << >>
    /\ ret.res[1].ExpectedIP = "5.6.7.8"

C30_WitnessNoServer ==
    /\ ret.op = "LookupContext"
    /\ ret.cfg # << >>
    /\ ret.res # << >>
    /\ ret.res[1].ExpectedIP = ""

\* the names that hold a hetzner api_token row
TokenNames ==
    {c[2] : c \in {x \in CredTriples :
                    x[1] = "hetzner" /\ x[3] = "api_token" /\ Stored(db, x) # {}}}

\* position of a name in the order of ORDER BY name
NameRank(n) == CHOOSE i \in DOMAIN CredNameOrder : CredNameOrder[i] = n

\* C31: whenever ListHetznerProjects answers, its list holds exactly the
\* names that have a hetzner api_token row at that moment, each once and in
\* ascending name order; so a name is listed after its token was set and is
\* not listed after DeleteCredential for it.
C31_ListIsTokenNames ==
    /\ (ret.op = "ListHetznerProjects" /\ ret.ok) =>
        /\ {ret.res[i].Alias : i \in DOMAIN ret.res} = TokenNames
        /\ \A i, j \in DOMAIN ret.res :
            i < j => NameRank(ret.res[i].Alias) < NameRank(ret.res[j].Alias)
    /\ (ret.op = "SetCredential" /\ ret.ok /\ ret.service = "hetzner"
            /\ ret.key = "api_token") =>
        \E i \in DOMAIN ListHetznerProjects(db) :
            ListHetznerProjects(db)[i].Alias = ret.name
    /\ (ret.op = "DeleteCredential" /\ ret.ok /\ ret.service = "hetzner") =>
        \A i \in DOMAIN ListHetznerProjects(db) :
            ListHetznerProjects(db)[i].Alias # ret.name

C31_Witness ==
    /\ ret.op = "ListHetznerProjects"
    /\ ret.ok
    /\ ret.res = <<[Alias |-> "dev"], [Alias |-> "prod"]>>
    /\ Stored(db, <<"hetzner", "prod", "extra">>) # {}

C31_WitnessDeleted ==
    /\ ret.op = "DeleteCredential"
    /\ ret.ok
    /\ ret.service = "hetzner"
    /\ ret.name = "prod"
    /\ <<"hetzner", "prod", "api_token">> \in ret.had
    /\ ListHetznerProjects(db) = <<[Alias |-> "dev"]>>

\* C32: a SetPeonKey that ran leaves, for its IP, the key and the path it was
\* given, whatever was stored before; no other call changes the table; and a
\* GetPeonKey that ran returns the key the table holds for the IP. So the
\* table has one key per IP, the one set last, and GetPeonKey returns it.
C32_OneKeyPerIP ==
    [][/\ (ret'.op = "SetPeonKey" /\ ret'.ok) =>
            db'.peon_keys[ret'.ip] = [private_key |-> ret'.value, key_path |-> ret'.path]
       /\ ~(ret'.op = "SetPeonKey" /\ ret'.ok) => db'.peon_keys = db.peon_keys
       /\ (ret'.op = "GetPeonKey" /\ ret'.ok) =>
            ret'.res = IF ret'.ip \in DOMAIN db.peon_keys
                       THEN [found |-> TRUE, value |-> db.peon_keys[ret'.ip].private_key]
                       ELSE NotFound]_vars

\* a key and a path were set over another key and another path
C32_Witness ==
    /\ ret.op = "GetPeonKey" /\ ret.ok
    /\ ret.res = [found |-> TRUE, value |-> "PEM2"]
    /\ db.peon_keys["1.2.3.4"] =
        [private_key |-> "PEM2", key_path |-> "~/.ssh/peon_ed25519_1.2.3.4"]

\* C33: when a service Deploy has returned without error, the projects row of
\* its service name has an empty repo, whatever rows the store held when the
\* run started.
C33_ServiceHasEmptyRepo ==
    (run.status = "done" /\ run.kind = "deploy") =>
        /\ run.params.ServiceName \in DOMAIN db.projects
        /\ db.projects[run.params.ServiceName].repo = ""

\* the same for a service name that had no projects row when the run started
C33_NewServiceHasEmptyRepo ==
    (/\ run.status = "done"
     /\ run.kind = "deploy"
     /\ run.params.ServiceName \notin DOMAIN run.before.projects) =>
        /\ run.params.ServiceName \in DOMAIN db.projects
        /\ db.projects[run.params.ServiceName].repo = ""

C33_WitnessNewService ==
    /\ run.status = "done"
    /\ run.kind = "deploy"
    /\ run.params.ServiceName \notin DOMAIN run.before.projects
    /\ db.projects[run.params.ServiceName].repo = ""

\* C34: once server init is confirmed, whatever is answered at the prompts,
\* the screen gets from the running phase to the done phase; in particular
\* the task does not wait for a reply for ever.
C34_InitReachesDone ==
    (serverinit.phase \in {"running", "passphrase"}) ~> (serverinit.phase = "done")

\* the same for the runs in which no prompt is cancelled
C34_InitReachesDoneOrCancelled ==
    (serverinit.phase \in {"running", "passphrase"})
        ~> (serverinit.phase = "done" \/ serverinit.cancelled)

\* the task waits for a reply that no prompt will send
C34_WitnessStuck ==
    /\ serverinit.phase = "running"
    /\ serverinit.pc = "recv"
    /\ serverinit.passphraseCh = << >>
    /\ serverinit.passphraseWait = 1
    /\ ~serverinit.waiter

(***************************************************************************)
(* The project-create and service-deploy screens and their background task *)
(***************************************************************************)
\* what the text input can hold: nothing, blanks, a word, digits
Typed == {"", " ", "text", "3000"}

\* strings.TrimSpace on the values of the text input
TrimSpace(v) == IF v = " " THEN "" ELSE v

\* strconv.Atoi on the values of the text input
Atoi(v) ==
    CASE v = "3000" -> [ok |-> TRUE, n |-> 3000]
      [] v = "0" -> [ok |-> TRUE, n |-> 0]
      [] OTHER -> [ok |-> FALSE, n |-> 0]

\* strconv.Itoa on the ports of the model
Itoa(n) == IF n = 3000 THEN "3000" ELSE "0"

\* the server lists a screen is made with; only web1 can have a stored key
WizardServerLists ==
    {<< >>,
     <<[Name |-> "web1", IP |-> ServerIP]>>,
     <<[Name |-> "web1", IP |-> ServerIP], [Name |-> "web2", IP |-> "10.0.0.2"]>>}

\* the repository lists the project-create screen is made with
WizardRepoLists == {<< >>, <<[NameWithOwner |-> "org/app", Name |-> "app"]>>}

envChoices == <<"dev", "prod">>

\* the first phase of each screen
FirstPhase(kind) == IF kind = "servicedeploy" THEN "serviceName" ELSE "selectRepo"

\* New(...): the model of a screen
NewWizard(kind, repos, servers) ==
    [kind |-> kind, phase |-> FirstPhase(kind), repos |-> repos, servers |-> servers,
     serverCursor |-> 1, envCursor |-> 1, input |-> "",
     name |-> "", repo |-> "", serverName |-> "", serverIP |-> "", envName |-> "",
     domain |-> "", port |-> 0, composeFile |-> "", peonKey |-> "", keyFound |-> FALSE,
     scans |-> 0, progressCh |-> << >>, waiter |-> FALSE, msg |-> << >>,
     pc |-> "none", reported |-> 0, outcome |-> "", err |-> "", key |-> ""]

\* the steps of the pipeline the screen starts
WizardTotal(w) == IF w.kind = "servicedeploy" THEN DeployTotalSteps ELSE SetupTotalSteps

\* bound on the port scans whose answer is still on its way
MaxScans == 1

\* the screen is left for the menu, or the program quits
Leave(w, key) == [w EXCEPT !.phase = "left", !.key = key]

\* goBack(): the phase before, with the text input holding the field of that
\* phase again
goBack(w) ==
    LET to(ph, val) == [w EXCEPT !.phase = ph, !.input = val, !.key = "esc"]
    IN  CASE w.phase \in {"serviceName", "selectRepo"} -> Leave(w, "esc")
          [] w.phase = "selectServer" ->
                IF w.kind = "servicedeploy" THEN to("serviceName", w.name)
                ELSE to("selectRepo", w.input)
          [] w.phase = "selectEnv" -> to("selectServer", w.input)
          [] w.phase = "domain" ->
                IF w.kind = "servicedeploy" THEN to("selectServer", w.input)
                ELSE to("selectEnv", w.input)
          [] w.phase = "port" -> to("domain", w.domain)
          [] w.phase = "composeFile" ->
                to("port", Itoa(w.port))
          [] w.phase = "confirm" ->
                IF w.kind = "servicedeploy" THEN to("composeFile", w.composeFile)
                ELSE to("port", Itoa(w.port))
          [] OTHER -> w

\* a key that edits the text input, in the phases that show it
WizardType ==
    /\ wizard.phase \in {"serviceName", "domain", "port", "composeFile"}
    /\ \E v \in Typed : wizard' = [wizard EXCEPT !.input = v, !.key = "type"]
    /\ UNCHANGED <<db, save, run, zone, lastOK, ret, load, serverinit, workflow, credscreen, runs>>

\* servicedeploy: updateServiceName
updateServiceName ==
    /\ wizard.phase = "serviceName"
    /\ \/ wizard' = IF TrimSpace(wizard.input) = ""
                    THEN [wizard EXCEPT !.key = "enter"]
                    ELSE [wizard EXCEPT !.name = TrimSpace(wizard.input),
                                        !.phase = "selectServer", !.key = "enter"]
       \/ wizard' = goBack(wizard)
    /\ UNCHANGED <<db, save, run, zone, lastOK, ret, load, serverinit, workflow, credscreen, runs>>

\* projectcreate: updateSelectRepo
updateSelectRepo ==
    /\ wizard.phase = "selectRepo"
    /\ \/ wizard' = IF wizard.repos = << >>
                    THEN [wizard EXCEPT !.key = "enter"]
                    ELSE [wizard EXCEPT !.repo = wizard.repos[1].NameWithOwner,
                                        !.name = wizard.repos[1].Name,
                                        !.phase = "selectServer", !.key = "enter"]
       \/ wizard' = goBack(wizard)
    /\ UNCHANGED <<db, save, run, zone, lastOK, ret, load, serverinit, workflow, credscreen, runs>>

\* updateSelectServer of both screens: the cursor moves, enter takes the
\* server and resolves its peon key (from the store in service deploy, from
\* the environment and a file in project create), esc goes back
updateSelectServer ==
    /\ wizard.phase = "selectServer"
    /\ \/ /\ wizard.serverCursor > 1
          /\ wizard' = [wizard EXCEPT !.serverCursor = @ - 1, !.key = "up"]
       \/ /\ wizard.serverCursor < Len(wizard.servers)
          /\ wizard' = [wizard EXCEPT !.serverCursor = @ + 1, !.key = "down"]
       \/ /\ wizard.servers = << >>
          /\ wizard' = [wizard EXCEPT !.key = "enter"]
       \/ /\ wizard.servers # << >>
          /\ LET srv == wizard.servers[wizard.serverCursor]
                 w == [wizard EXCEPT !.serverName = srv.Name, !.serverIP = srv.IP,
                                     !.key = "enter"]
                 failed == [w EXCEPT !.err = "peon key", !.phase = "done"]
             IN  IF wizard.kind = "servicedeploy"
                 THEN \/ /\ GetPeonKey(db, srv.IP).found
                         /\ wizard' = [w EXCEPT !.peonKey = GetPeonKey(db, srv.IP).value,
                                                !.keyFound = TRUE,
                                                !.phase = "domain", !.input = ""]
                      \/ /\ ~GetPeonKey(db, srv.IP).found
                         /\ wizard' = failed
                      \/ wizard' = failed
                 ELSE \/ \E k \in {"FILE PEM", ""} :
                            wizard' = [w EXCEPT !.peonKey = k, !.keyFound = TRUE,
                                                !.phase = "selectEnv"]
                      \/ wizard' = failed
       \/ wizard' = goBack(wizard)
    /\ UNCHANGED <<db, save, run, zone, lastOK, ret, load, serverinit, workflow, credscreen, runs>>

\* projectcreate: updateSelectEnv
updateSelectEnv ==
    /\ wizard.phase = "selectEnv"
    /\ \/ /\ wizard.envCursor > 1
          /\ wizard' = [wizard EXCEPT !.envCursor = @ - 1, !.key = "up"]
       \/ /\ wizard.envCursor < Len(envChoices)
          /\ wizard' = [wizard EXCEPT !.envCursor = @ + 1, !.key = "down"]
       \/ wizard' = [wizard EXCEPT !.envName = envChoices[wizard.envCursor],
                                   !.phase = "domain", !.input = "", !.key = "enter"]
       \/ wizard' = goBack(wizard)
    /\ UNCHANGED <<db, save, run, zone, lastOK, ret, load, serverinit, workflow, credscreen, runs>>

\* updateDomain of both screens; project create fills an empty dev domain in
updateDomain ==
    /\ wizard.phase = "domain"
    /\ \/ LET typed == TrimSpace(wizard.input)
              val == IF typed = "" /\ wizard.kind = "projectcreate"
                            /\ wizard.envName = "dev"
                     THEN "app.angmar.dev" ELSE typed
          IN  wizard' = IF val = "" THEN [wizard EXCEPT !.key = "enter"]
                        ELSE [wizard EXCEPT !.domain = val, !.phase = "port",
                                            !.input = "", !.key = "enter",
                                            !.scans = IF @ < MaxScans THEN @ + 1 ELSE @]
       \/ wizard' = goBack(wizard)
    /\ UNCHANGED <<db, save, run, zone, lastOK, ret, load, serverinit, workflow, credscreen, runs>>

\* the variant that goes on when the text is not a number
updatePort_NoAtoi ==
    /\ wizard.phase = "port"
    /\ \/ LET val == TrimSpace(wizard.input) IN
          wizard' = IF val = "" THEN [wizard EXCEPT !.key = "enter"]
                    ELSE [wizard EXCEPT !.port = Atoi(val).n, !.key = "enter",
                            !.phase = IF wizard.kind = "servicedeploy"
                                      THEN "composeFile" ELSE "confirm",
                            !.input = ""]
       \/ wizard' = goBack(wizard)
    /\ UNCHANGED <<db, save, run, zone, lastOK, ret, load, serverinit, workflow, credscreen, runs>>

\* updatePort of both screens on a key
updatePort ==
    /\ wizard.phase = "port"
    /\ \/ LET val == TrimSpace(wizard.input) IN
          wizard' = IF val = "" \/ ~Atoi(val).ok THEN [wizard EXCEPT !.key = "enter"]
                    ELSE [wizard EXCEPT !.port = Atoi(val).n, !.key = "enter",
                            !.phase = IF wizard.kind = "servicedeploy"
                                      THEN "composeFile" ELSE "confirm",
                            !.input = ""]
       \/ wizard' = goBack(wizard)
    /\ UNCHANGED <<db, save, run, zone, lastOK, ret, load, serverinit, workflow, credscreen, runs>>

\* the answer of scanPorts arrives: in the port phase the suggestion is put
\* into the text input unless the scan failed, in every other phase the
\* message changes nothing
usedPortsMsg ==
    /\ wizard.phase \notin {"none", "left"}
    /\ wizard.scans > 0
    /\ \/ wizard' = [wizard EXCEPT !.scans = @ - 1]
       \/ wizard' = [wizard EXCEPT !.scans = @ - 1,
                        !.input = IF wizard.phase = "port" THEN "3000" ELSE @]
    /\ UNCHANGED <<db, save, run, zone, lastOK, ret, load, serverinit, workflow, credscreen, runs>>

\* servicedeploy: updateComposeFile
updateComposeFile ==
    /\ wizard.phase = "composeFile"
    /\ \/ wizard' = [wizard EXCEPT !.composeFile =
                                        IF TrimSpace(wizard.input) = ""
                                        THEN "./docker-compose.yml"
                                        ELSE TrimSpace(wizard.input),
                                   !.phase = "confirm", !.key = "enter"]
       \/ wizard' = goBack(wizard)
    /\ UNCHANGED <<db, save, run, zone, lastOK, ret, load, serverinit, workflow, credscreen, runs>>

\* updateConfirm of both screens: enter or y makes the channel, starts the
\* task and arms the reader; esc or n goes back
WizardUpdateConfirm ==
    /\ wizard.phase = "confirm"
    /\ \/ \E key \in {"enter", "y"} :
            wizard' = [wizard EXCEPT !.phase = "running", !.progressCh = << >>,
                                     !.waiter = TRUE, !.pc = "run", !.key = key]
       \/ \E key \in {"esc", "n"} : wizard' = [goBack(wizard) EXCEPT !.key = key]
    /\ UNCHANGED <<db, save, run, zone, lastOK, ret, load, serverinit, workflow, credscreen, runs>>

\* the task inside Setup or Deploy: the next step's report is sent on the
\* channel, which holds one message
OnProgress ==
    /\ wizard.pc = "run"
    /\ wizard.reported < WizardTotal(wizard)
    /\ Len(wizard.progressCh) < 1
    /\ wizard' = [wizard EXCEPT !.reported = @ + 1,
                    !.progressCh = Append(@, [done |-> FALSE, step |-> wizard.reported + 1,
                                              err |-> ""])]
    /\ UNCHANGED <<db, save, run, zone, lastOK, ret, load, serverinit, workflow, credscreen, runs>>

\* Setup or Deploy returns: an error after any number of steps, nil after the
\* last
SequencerReturns ==
    /\ wizard.pc = "run"
    /\ \/ wizard' = [wizard EXCEPT !.pc = "send", !.outcome = "failed"]
       \/ /\ wizard.reported = WizardTotal(wizard)
          /\ wizard' = [wizard EXCEPT !.pc = "send", !.outcome = "ok"]
    /\ UNCHANGED <<db, save, run, zone, lastOK, ret, load, serverinit, workflow, credscreen, runs>>

\* the task sends progressMsg{done: true, err: err} and ends
SendDone ==
    /\ wizard.pc = "send"
    /\ Len(wizard.progressCh) < 1
    /\ wizard' = [wizard EXCEPT !.pc = "exited",
                    !.progressCh = Append(@, [done |-> TRUE, step |-> 0,
                                              err |-> IF wizard.outcome = "ok" THEN ""
                                                      ELSE "failed"])]
    /\ UNCHANGED <<db, save, run, zone, lastOK, ret, load, serverinit, workflow, credscreen, runs>>

\* the armed reader takes the next message off the channel
waitForProgress ==
    /\ wizard.waiter
    /\ wizard.progressCh # << >>
    /\ wizard' = [wizard EXCEPT !.waiter = FALSE, !.msg = <<Head(wizard.progressCh)>>,
                                !.progressCh = Tail(@)]
    /\ UNCHANGED <<db, save, run, zone, lastOK, ret, load, serverinit, workflow, credscreen, runs>>

\* the variant that arms no reader after a report
WizardUpdateRunning_NoReader ==
    /\ wizard.phase = "running"
    /\ wizard.msg # << >>
    /\ wizard' = IF wizard.msg[1].done
                 THEN [wizard EXCEPT !.msg = << >>, !.err = wizard.msg[1].err,
                                     !.phase = "done"]
                 ELSE [wizard EXCEPT !.msg = << >>]
    /\ UNCHANGED <<db, save, run, zone, lastOK, ret, load, serverinit, workflow, credscreen, runs>>

\* updateRunning of both screens on a progressMsg: the last message ends the
\* screen's run, any other is shown and the reader is armed again
WizardUpdateRunning ==
    /\ wizard.phase = "running"
    /\ wizard.msg # << >>
    /\ wizard' = IF wizard.msg[1].done
                 THEN [wizard EXCEPT !.msg = << >>, !.err = wizard.msg[1].err,
                                     !.phase = "done"]
                 ELSE [wizard EXCEPT !.msg = << >>, !.waiter = TRUE]
    /\ UNCHANGED <<db, save, run, zone, lastOK, ret, load, serverinit, workflow, credscreen, runs>>

\* updateDone of both screens: enter goes to the menu, q quits
WizardUpdateDone ==
    /\ wizard.phase = "done"
    /\ \E key \in {"enter", "q"} : wizard' = Leave(wizard, key)
    /\ UNCHANGED <<db, save, run, zone, lastOK, ret, load, serverinit, workflow, credscreen, runs>>

WizardInit ==
    /\ db \in ConfiguredStores
    /\ save = Idle
    /\ run = NotRunning
    /\ zone = Empty
    /\ lastOK = NoRun
    /\ ret = NoCall
    /\ load = NoLoad
    /\ serverinit = NoScreen
    /\ workflow = NoRepo
    /\ wizard \in {NewWizard("servicedeploy", << >>, s) : s \in WizardServerLists}
                  \cup {NewWizard("projectcreate", r, s) :
                            r \in WizardRepoLists, s \in WizardServerLists}
    /\ credscreen = NoCredScreen
    /\ runs = NoRuns

WizardNext ==
    \/ WizardType
    \/ updateServiceName
    \/ updateSelectRepo
    \/ updateSelectServer
    \/ updateSelectEnv
    \/ updateDomain
    \/ updatePort
    \/ usedPortsMsg
    \/ updateComposeFile
    \/ WizardUpdateConfirm
    \/ OnProgress
    \/ SequencerReturns
    \/ SendDone
    \/ waitForProgress
    \/ WizardUpdateRunning
    \/ WizardUpdateDone

SpecWizard == WizardInit /\ [][WizardNext]_vars

\* the same with the scheduling the runtime gives: the task's goroutine and
\* the reader's command run when they can, and the program delivers the
\* messages of its commands
SpecWizardLive ==
    /\ SpecWizard
    /\ WF_vars(OnProgress)
    /\ WF_vars(SequencerReturns)
    /\ WF_vars(SendDone)
    /\ WF_vars(waitForProgress)
    /\ WF_vars(WizardUpdateRunning)

\* C35: once a run is confirmed the screen gets from the running phase to the
\* done phase, whatever the sequencer does: the task is never left waiting
\* on the channel.  The screen is in the done phase after a confirmed run
\* only when the sequencer has returned and the task has ended, and it then
\* shows the sequencer's error, or none after a success.
C35_RunReachesDone ==
    /\ (wizard.phase = "running") ~> (wizard.phase = "done")
    /\ [](wizard.phase \in {"done", "left"} /\ wizard.pc # "none" =>
            /\ wizard.pc = "exited"
            /\ wizard.outcome # ""
            /\ wizard.err = (IF wizard.outcome = "ok" THEN "" ELSE "failed"))
    /\ [](wizard.phase = "running" => wizard.pc # "none")

\* a run that reported every step and failed is shown as failed
C35_Witness ==
    /\ wizard.phase = "done"
    /\ wizard.pc = "exited"
    /\ wizard.reported = WizardTotal(wizard)
    /\ wizard.outcome = "failed"
    /\ wizard.err = "failed"

\* C40: the task is started only by enter or y in the confirm phase, and
\* then the name, the server, the domain and the port are set: the name, the
\* server name and the domain are not empty, the port is a number that was
\* typed or suggested, and in service deploy the peon key of the server was
\* found in the store.
C40_StartedWithAllFields ==
    [][(wizard.pc = "none" /\ wizard'.pc # "none") =>
            /\ wizard.phase = "confirm"
            /\ wizard'.key \in {"enter", "y"}
            /\ wizard.name # ""
            /\ wizard.serverName # ""
            /\ wizard.domain # ""
            /\ wizard.port = 3000
            /\ wizard.kind = "servicedeploy" =>
                /\ wizard.keyFound
                /\ GetPeonKey(db, wizard.serverIP) =
                        [found |-> TRUE, value |-> wizard.peonKey]]_vars

\* a run was started after the user had gone back and forth
C40_Witness ==
    /\ wizard.phase = "running"
    /\ wizard.kind = "servicedeploy"
    /\ wizard.key = "y"
    /\ wizard.composeFile = "text"
    /\ wizard.peonKey = "STORED PEM"

(***************************************************************************)
(* The credentials screen                                                  *)
(***************************************************************************)
\* var services
services ==
    <<[service |-> "porkbun", fields |-> <<"api_key", "secret_key">>, canValidate |-> TRUE],
      [service |-> "cloudflare", fields |-> <<"account_id", "api_token">>,
       canValidate |-> TRUE],
      [service |-> "dockerhub", fields |-> <<"username", "password">>, canValidate |-> TRUE],
      [service |-> "hetzner", fields |-> << >>, canValidate |-> FALSE]>>

\* SELECT ... FROM credentials WHERE service = ?
ListCredentials(t, service) ==
    SelectSeq(t.credentials, LAMBDA r : r.service = service)

\* SaveConfig from Begin to Commit with every statement succeeding
RECURSIVE RunTx(_)
RunTx(sv) ==
    IF NextStmts(sv) = {} THEN Commit(sv.before, sv.work)
    ELSE RunTx(Exec(sv, CHOOSE st \in NextStmts(sv) : TRUE))

SaveConfig(t, cfg) == RunTx(OpenTx(t, cfg, "screen"))

\* how many times the user sets out to change the store on one visit
MaxAttempts == 2

\* the aliases typed for a new Hetzner project
TypedAliases == {"", "prod", "dev"}

\* the servers of the Hetzner account the typed token belongs to
ServersOf(alias) == IF alias \in Aliases THEN CloudServers[alias] ELSE {}

\* New(store): the statuses are read from the store, a failed query counting
\* as no credential; failed says whether a store call of the screen failed
NewCredScreen(t, queried) ==
    [phase |-> "selectService", cursor |-> 1,
     statuses |-> [i \in DOMAIN services |->
                    i \in queried /\ Len(ListCredentials(t, services[i].service)) > 0],
     selectedIdx |-> 1, fieldIdx |-> 1, fieldValues |-> << >>, err |-> "",
     hetznerProjects |-> << >>, hetznerCursor |-> 1, hetznerAlias |-> "",
     cmd |-> "none", token |-> "", msg |-> << >>,
     prior |-> << >>, failed |-> queried # DOMAIN services, attempts |-> 0]

updateSelectService ==
    /\ credscreen.phase = "selectService"
    /\ \/ /\ credscreen.cursor > 1
          /\ credscreen' = [credscreen EXCEPT !.cursor = @ - 1]
       \/ /\ credscreen.cursor < Len(services)
          /\ credscreen' = [credscreen EXCEPT !.cursor = @ + 1]
       \/ LET s == [credscreen EXCEPT !.selectedIdx = credscreen.cursor, !.err = "",
                        !.prior = ListCredentials(db, services[credscreen.cursor].service)]
          IN  IF services[credscreen.cursor].service = "hetzner"
              THEN \/ credscreen' = [s EXCEPT !.hetznerProjects = ListHetznerProjects(db),
                                              !.hetznerCursor = 1, !.phase = "hetznerList"]
                   \/ credscreen' = [s EXCEPT !.hetznerProjects = << >>, !.failed = TRUE,
                                              !.hetznerCursor = 1, !.phase = "hetznerList"]
              ELSE /\ credscreen.attempts < MaxAttempts
                   /\ credscreen' = [s EXCEPT !.fieldIdx = 1, !.fieldValues = << >>,
                                              !.attempts = @ + 1, !.phase = "field"]
       \/ credscreen' = [credscreen EXCEPT !.phase = "left"]
    /\ UNCHANGED <<db, save, run, zone, lastOK, ret, load, serverinit, workflow, wizard, runs>>

\* the table after the fields 1..n of the selected service were set to vals
RECURSIVE SetFields(_, _, _, _)
SetFields(t, svc, vals, n) ==
    IF n = 0 THEN t
    ELSE SetCredential(SetFields(t, svc, vals, n - 1), svc.service, "default",
                       svc.fields[n], vals[n])

\* updateField: enter takes the field; after the last field every field is
\* written with SetCredential, in order, and the validation is started; a
\* SetCredential that fails ends the attempt with what was written before it
updateField ==
    /\ credscreen.phase = "field"
    /\ LET svc == services[credscreen.selectedIdx] IN
       \/ /\ credscreen' = credscreen
          /\ db' = db
       \/ /\ credscreen.fieldIdx < Len(svc.fields)
          /\ credscreen' = [credscreen EXCEPT !.fieldValues = Append(@, "new"),
                                              !.fieldIdx = @ + 1]
          /\ db' = db
       \/ /\ credscreen.fieldIdx = Len(svc.fields)
          /\ LET vals == Append(credscreen.fieldValues, "new") IN
             \/ \E n \in 0..(Len(svc.fields) - 1) :
                    /\ db' = SetFields(db, svc, vals, n)
                    /\ credscreen' = [credscreen EXCEPT !.fieldValues = vals,
                                        !.err = "setting credential", !.failed = TRUE,
                                        !.phase = "done"]
             \/ /\ db' = SetFields(db, svc, vals, Len(svc.fields))
                /\ credscreen' = [credscreen EXCEPT !.fieldValues = vals,
                                    !.phase = "validating", !.cmd = "validate"]
       \/ /\ credscreen.fieldIdx > 1
          /\ credscreen' = [credscreen EXCEPT !.fieldIdx = @ - 1,
                                !.fieldValues = SubSeq(@, 1, Len(@) - 1)]
          /\ db' = db
       \/ /\ credscreen.fieldIdx = 1
          /\ credscreen' = [credscreen EXCEPT !.phase = "selectService"]
          /\ db' = db
    /\ UNCHANGED <<save, run, zone, lastOK, ret, load, serverinit, workflow, wizard, runs>>

\* the command of validate(): the service answers the new credentials or
\* refuses them
validate ==
    /\ credscreen.cmd = "validate"
    /\ \E e \in {"", "validation failed"} :
        credscreen' = [credscreen EXCEPT !.cmd = "none",
                            !.msg = <<[kind |-> "validateDoneMsg", err |-> e]>>]
    /\ UNCHANGED <<db, save, run, zone, lastOK, ret, load, serverinit, workflow, wizard, runs>>

\* the command of validateHetzner(alias, token): Ping and ListServers, then
\* SetCredential, LoadConfig, the servers not yet known appended, SaveConfig
validateHetzner ==
    /\ credscreen.cmd = "validateHetzner"
    /\ LET out(e) == [credscreen EXCEPT !.cmd = "none",
                        !.failed = @ \/ e \notin {"", "invalid token"},
                        !.msg = <<[kind |-> "hetznerValidateDoneMsg", err |-> e]>>]
           t == SetCredential(db, "hetzner", credscreen.hetznerAlias, "api_token",
                              credscreen.token)
           cfg == DiscoveredByID(LoadConfig(t), credscreen.hetznerAlias,
                                 ServersOf(credscreen.hetznerAlias))
       IN  \/ /\ db' = db
              /\ credscreen' = out("invalid token")
           \/ /\ db' = db
              /\ credscreen' = out("setting credential")
           \/ /\ db' = t
              /\ credscreen' = out("saving config")
           \/ /\ db' = SaveConfig(t, cfg)
              /\ credscreen' = out("")
    /\ UNCHANGED <<save, run, zone, lastOK, ret, load, serverinit, workflow, wizard, runs>>

\* updateValidating: after a refused validation the credentials of the
\* service are deleted (the error of DeleteCredential is dropped), after an
\* accepted one the service is marked configured
updateValidating ==
    /\ credscreen.phase = "validating"
    /\ credscreen.msg # << >>
    /\ LET m == credscreen.msg[1]
           svc == services[credscreen.selectedIdx]
           s == [credscreen EXCEPT !.msg = << >>, !.phase = "done"]
       IN  IF m.kind = "validateDoneMsg"
           THEN IF m.err # ""
                THEN \/ /\ db' = DeleteCredential(db, svc.service, "default")
                        /\ credscreen' = [s EXCEPT !.err = m.err]
                     \/ /\ db' = db
                        /\ credscreen' = [s EXCEPT !.err = m.err, !.failed = TRUE]
                ELSE /\ db' = db
                     /\ credscreen' = [s EXCEPT !.statuses[credscreen.selectedIdx] = TRUE]
           ELSE /\ db' = db
                /\ credscreen' = IF m.err # "" THEN [s EXCEPT !.err = m.err]
                                 ELSE [s EXCEPT !.statuses[credscreen.selectedIdx] = TRUE]
    /\ UNCHANGED <<save, run, zone, lastOK, ret, load, serverinit, workflow, wizard, runs>>

\* updateDone of the credentials screen
CredUpdateDone ==
    /\ credscreen.phase = "done"
    /\ \/ IF services[credscreen.selectedIdx].service = "hetzner"
          THEN \/ credscreen' = [credscreen EXCEPT !.err = "", !.hetznerCursor = 1,
                                    !.hetznerProjects = ListHetznerProjects(db),
                                    !.phase = "hetznerList"]
               \/ credscreen' = [credscreen EXCEPT !.err = "", !.hetznerCursor = 1,
                                    !.hetznerProjects = << >>, !.failed = TRUE,
                                    !.phase = "hetznerList"]
          ELSE credscreen' = [credscreen EXCEPT !.err = "", !.phase = "selectService"]
       \/ credscreen' = [credscreen EXCEPT !.phase = "left"]
    /\ UNCHANGED <<db, save, run, zone, lastOK, ret, load, serverinit, workflow, wizard, runs>>

updateHetznerList ==
    /\ credscreen.phase = "hetznerList"
    /\ \/ /\ credscreen.hetznerCursor > 1
          /\ credscreen' = [credscreen EXCEPT !.hetznerCursor = @ - 1]
       \/ /\ credscreen.hetznerCursor < Len(credscreen.hetznerProjects) + 1
          /\ credscreen' = [credscreen EXCEPT !.hetznerCursor = @ + 1]
       \/ /\ credscreen.hetznerCursor = Len(credscreen.hetznerProjects) + 1
          /\ credscreen.attempts < MaxAttempts
          /\ credscreen' = [credscreen EXCEPT !.hetznerAlias = "", !.attempts = @ + 1,
                                              !.phase = "hetznerAlias"]
       \/ /\ credscreen.hetznerCursor <= Len(credscreen.hetznerProjects)
          /\ credscreen.attempts < MaxAttempts
          /\ credscreen' = [credscreen EXCEPT !.attempts = @ + 1,
                                              !.phase = "hetznerConfirmDelete"]
       \/ credscreen' = [credscreen EXCEPT !.phase = "selectService"]
    /\ UNCHANGED <<db, save, run, zone, lastOK, ret, load, serverinit, workflow, wizard, runs>>

updateHetznerAlias ==
    /\ credscreen.phase = "hetznerAlias"
    /\ \/ \E val \in TypedAliases :
            credscreen' =
                IF val = "" THEN credscreen
                ELSE IF \E i \in DOMAIN credscreen.hetznerProjects :
                            credscreen.hetznerProjects[i].Alias = val
                THEN [credscreen EXCEPT !.err = "alias already exists", !.phase = "done"]
                ELSE [credscreen EXCEPT !.hetznerAlias = val, !.phase = "hetznerToken"]
       \/ credscreen' = [credscreen EXCEPT !.phase = "hetznerList"]
    /\ UNCHANGED <<db, save, run, zone, lastOK, ret, load, serverinit, workflow, wizard, runs>>

updateHetznerToken ==
    /\ credscreen.phase = "hetznerToken"
    /\ \/ credscreen' = credscreen
       \/ credscreen' = [credscreen EXCEPT !.phase = "validating", !.token = "new",
                                           !.cmd = "validateHetzner"]
       \/ credscreen' = [credscreen EXCEPT !.phase = "hetznerAlias"]
    /\ UNCHANGED <<db, save, run, zone, lastOK, ret, load, serverinit, workflow, wizard, runs>>

\* updateHetznerConfirmDelete: y deletes the project's credentials and reads
\* the list again, both errors dropped
updateHetznerConfirmDelete ==
    /\ credscreen.phase = "hetznerConfirmDelete"
    /\ \/ \E deleted \in BOOLEAN, listed \in BOOLEAN :
            LET alias == credscreen.hetznerProjects[credscreen.hetznerCursor].Alias
                t == IF deleted THEN DeleteCredential(db, "hetzner", alias) ELSE db
                l == IF listed THEN ListHetznerProjects(t) ELSE << >>
            IN  /\ db' = t
                /\ credscreen' = [credscreen EXCEPT
                        !.hetznerProjects = l,
                        !.hetznerCursor = IF @ > Len(l) + 1 THEN Len(l) + 1 ELSE @,
                        !.statuses[credscreen.selectedIdx] = Len(l) > 0,
                        !.failed = @ \/ ~deleted \/ ~listed,
                        !.phase = "hetznerList"]
       \/ /\ db' = db
          /\ credscreen' = [credscreen EXCEPT !.phase = "hetznerList"]
    /\ UNCHANGED <<save, run, zone, lastOK, ret, load, serverinit, workflow, wizard, runs>>

CredScreenInit ==
    /\ db \in ConfiguredStores \cup {EmptyDB}
    /\ save = Idle
    /\ run = NotRunning
    /\ zone = Empty
    /\ lastOK = NoRun
    /\ ret = NoCall
    /\ load = NoLoad
    /\ serverinit = NoScreen
    /\ workflow = NoRepo
    /\ wizard = NoWizard
    /\ credscreen \in {NewCredScreen(db, q) : q \in {DOMAIN services, {}}}
    /\ runs = NoRuns

CredScreenNext ==
    \/ updateSelectService
    \/ updateField
    \/ validate
    \/ validateHetzner
    \/ updateValidating
    \/ CredUpdateDone
    \/ updateHetznerList
    \/ updateHetznerAlias
    \/ updateHetznerToken
    \/ updateHetznerConfirmDelete

SpecCredScreen == CredScreenInit /\ [][CredScreenNext]_vars

\* C36: when the validation of new credentials of a service was refused, and
\* no call of the store failed, the store holds for that service the
\* credentials it held when the attempt to replace them began.
C36_RefusedKeepsStored ==
    (/\ credscreen.phase = "done"
     /\ credscreen.err = "validation failed"
     /\ ~credscreen.failed) =>
        ListCredentials(db, services[credscreen.selectedIdx].service) = credscreen.prior

\* the same for a service that had no credentials when the attempt began
C36_RefusedFirstAttempt ==
    (/\ credscreen.phase = "done"
     /\ credscreen.err = "validation failed"
     /\ credscreen.prior = << >>
     /\ ~credscreen.failed) =>
        ListCredentials(db, services[credscreen.selectedIdx].service) = credscreen.prior

C36_WitnessFirstAttempt ==
    /\ credscreen.phase = "done"
    /\ credscreen.err = "validation failed"
    /\ credscreen.prior = << >>
    /\ ~credscreen.failed

\* C37: whenever the screen is not in the middle of a validation and no call
\* of the store has failed, each service is marked configured exactly when
\* the store holds a credential of that service.
C37_ConfiguredIffStored ==
    (/\ credscreen.phase \notin {"none", "left", "validating"}
     /\ ~credscreen.failed) =>
        \A i \in DOMAIN services :
            credscreen.statuses[i] <=> Len(ListCredentials(db, services[i].service)) > 0

\* a service that is not marked configured has no credential in the store
C37_StoredIsMarked ==
    (/\ credscreen.phase \notin {"none", "left", "validating"}
     /\ ~credscreen.failed) =>
        \A i \in DOMAIN services :
            Len(ListCredentials(db, services[i].service)) > 0 => credscreen.statuses[i]

C37_WitnessMarked ==
    /\ credscreen.phase = "done"
    /\ credscreen.err = ""
    /\ ~credscreen.failed
    /\ credscreen.prior = << >>
    /\ credscreen.statuses[credscreen.selectedIdx]

(***************************************************************************)
(* Two runs on one store: each loads the Config when it starts and saves    *)
(* its whole snapshot when it ends                                          *)
(***************************************************************************)
RunIds == {1, 2}

\* the two hosts of the store
RunServers ==
    <<[Name |-> "web1", IP |-> "1.2.3.4", HetznerProject |-> "prod", HetznerID |-> 42],
      [Name |-> "web2", IP |-> "5.6.7.8", HetznerProject |-> "prod", HetznerID |-> 43]>>

\* the host the Hetzner account has besides
ListedServers == {[Name |-> "web3", IP |-> "9.9.9.9", ID |-> 44]}

\* the calls: Setup, Deploy, and the credentials screen adding a Hetzner project
SetupCalls ==
    [kind : {"setup"}, ProjectName : {"app"}, Repo : {"org/app"},
     ServerName : ServerNames, EnvName : EnvNames, Domain : {Apex}, Port : {3000}]

DeployCalls ==
    [kind : {"deploy"}, ServiceName : {"app"}, ServerName : ServerNames, Domain : {Apex},
     Port : {3000}]

DiscoverCalls == [kind : {"discover"}, alias : {"prod"}]

RunCalls == SetupCalls \cup DeployCalls \cup DiscoverCalls

\* the project and the environment a pipeline call writes
TargetProject(c) == IF c.kind = "setup" THEN c.ProjectName ELSE c.ServiceName
TargetEnv(c) == IF c.kind = "setup" THEN c.EnvName ELSE "prod"

\* the snapshot as the call saves it: step 10 of Setup, step 8 of Deploy,
\* the servers validateHetzner appends
Merged(c, cfg) ==
    IF c.kind = "setup"
    THEN MergeEnvironment(cfg, c.ProjectName, c.Repo, c.ServerName, c.EnvName,
                          SetupEnvironment(c, "porkbun"))
    ELSE IF c.kind = "deploy"
    THEN MergeEnvironment(cfg, c.ServiceName, "", c.ServerName, "prod",
                          DeployEnvironment(c, "porkbun"))
    ELSE DiscoveredByID(cfg, c.alias, ListedServers)

\* the stores the runs start on: the two hosts, and maybe project app on web1
\* with the prod environment an earlier Setup stored
EarlierSetup ==
    [kind |-> "setup", ProjectName |-> "app", Repo |-> "org/app", ServerName |-> "web1",
     EnvName |-> "prod", Domain |-> Apex, Port |-> 3000]

RunStores ==
    LET hosts == [HetznerProjects |-> << >>, Servers |-> RunServers, Projects |-> << >>]
    IN  {SaveConfig(t, cfg) : t \in ConfiguredStores,
                              cfg \in {hosts, Merged(EarlierSetup, hosts)}}

NotStarted == [pc |-> "idle"]

\* the call starts: params.Store.LoadConfig(). missed collects the runs that
\* save while this one works on its snapshot
RunLoad(r) ==
    /\ runs[r].pc = "idle"
    /\ \E c \in RunCalls :
        runs' = [runs EXCEPT ![r] = [pc |-> "loaded", call |-> c, cfg |-> LoadConfig(db),
                                     saved |-> << >>, missed |-> {}]]
    /\ UNCHANGED <<db, save, run, zone, lastOK, ret, load, serverinit, workflow, wizard,
                   credscreen>>

\* the call ends: the server of a pipeline call is one of its snapshot, the
\* snapshot is merged and saved in one transaction, or SaveConfig fails
RunSave(r) ==
    /\ runs[r].pc = "loaded"
    /\ LET c == runs[r].call
           cfg == Merged(c, runs[r].cfg)
       IN  /\ c.kind # "discover" => FindServer(runs[r].cfg, c.ServerName) # 0
           /\ \/ /\ db' = SaveConfig(db, cfg)
                 /\ runs' = [o \in RunIds |->
                                IF o = r THEN [runs[r] EXCEPT !.pc = "done", !.saved = cfg]
                                ELSE IF runs[o].pc = "loaded"
                                THEN [runs[o] EXCEPT !.missed = @ \cup {r}]
                                ELSE runs[o]]
              \/ /\ db' = db
                 /\ runs' = [runs EXCEPT ![r].pc = "failed"]
    /\ UNCHANGED <<save, run, zone, lastOK, ret, load, serverinit, workflow, wizard,
                   credscreen>>

RunsInit ==
    /\ db \in RunStores
    /\ save = Idle
    /\ run = NotRunning
    /\ zone = Empty
    /\ lastOK = NoRun
    /\ ret = NoCall
    /\ load = NoLoad
    /\ serverinit = NoScreen
    /\ workflow = NoRepo
    /\ wizard = NoWizard
    /\ credscreen = NoCredScreen
    /\ runs = [r \in RunIds |-> NotStarted]

RunsNext ==
    \/ \E r \in RunIds : RunLoad(r)
    \/ \E r \in RunIds : RunSave(r)

SpecRuns == RunsInit /\ [][RunsNext]_vars

\* what run o wrote is in the loaded Config l, but for the environment that
\* run r wrote itself
KeptAfter(o, r, l) ==
    LET c == runs[o].call
        mine == runs[r].call
    IN  IF c.kind = "discover"
        THEN \A i \in DOMAIN runs[o].saved.Servers :
                runs[o].saved.Servers[i] \in Range(l.Servers)
        ELSE \/ /\ mine.kind # "discover"
                /\ TargetProject(mine) = TargetProject(c)
                /\ TargetEnv(mine) = TargetEnv(c)
             \/ /\ FindProject(l, TargetProject(c)) # 0
                /\ TargetEnv(c) \in DOMAIN ProjectOf(l, TargetProject(c)).Environments
                /\ ProjectOf(l, TargetProject(c)).Environments[TargetEnv(c)]
                     = ProjectOf(runs[o].saved, TargetProject(c)).Environments[TargetEnv(c)]

\* C38: when a run has saved, what another run saved between this run's load
\* and its save is still stored: the servers a discovery added, the
\* environment a pipeline wrote (unless this run wrote that environment too).
C38_LaterSaveKeepsOthers ==
    \A r \in RunIds :
        runs # NoRuns /\ runs[r].pc = "done" =>
            \A o \in runs[r].missed : KeptAfter(o, r, LoadConfig(db))

\* the servers a discovery added in between are kept
C38_DiscoveredServersKept ==
    \A r \in RunIds :
        runs # NoRuns /\ runs[r].pc = "done" =>
            \A o \in runs[r].missed :
                runs[o].call.kind = "discover" => KeptAfter(o, r, LoadConfig(db))

C38_WitnessDiscoveredKept ==
    /\ runs # NoRuns
    /\ runs[1].pc = "done"
    /\ 2 \in runs[1].missed
    /\ runs[2].call.kind = "discover"
    /\ runs[1].call.kind = "setup"

\* C39: after a pipeline run for project P on server S has saved, no other
\* run having started, the stored project P has S as its server and the
\* context of its domain has the IP of S as the expected IP.
C39_ProjectNamesRunServer ==
    \A r \in RunIds :
        (/\ runs # NoRuns
         /\ runs[r].pc = "done"
         /\ runs[r].call.kind # "discover"
         /\ \A o \in RunIds \ {r} : runs[o].pc = "idle") =>
            LET c == runs[r].call
                l == LoadConfig(db)
            IN  /\ ProjectOf(l, TargetProject(c)).Server = c.ServerName
                /\ \A x \in LookupContext(<<l>>, c.Domain) :
                    /\ x # << >>
                    /\ x[1].ExpectedIP = l.Servers[FindServer(l, c.ServerName)].IP

\* the same for a project that the run's snapshot did not have
C39_NewProjectNamesRunServer ==
    \A r \in RunIds :
        (/\ runs # NoRuns
         /\ runs[r].pc = "done"
         /\ runs[r].call.kind # "discover"
         /\ FindProject(runs[r].cfg, TargetProject(runs[r].call)) = 0
         /\ \A o \in RunIds \ {r} : runs[o].pc = "idle") =>
            ProjectOf(LoadConfig(db), TargetProject(runs[r].call)).Server
                = runs[r].call.ServerName

C39_WitnessNewProject ==
    /\ runs # NoRuns
    /\ runs[1].pc = "done"
    /\ runs[2].pc = "idle"
    /\ runs[1].call.kind = "deploy"
    /\ runs[1].call.ServerName = "web2"
    /\ FindProject(runs[1].cfg, "app") = 0

====
